---- MODULE Spec2Model ----
(***************************************************************************)
(* Ticket reservation backend: the fast path (in-memory seat cache and     *)
(* idempotency cache with deferred persistence, ticket.controller.js) and  *)
(* the CRUD path (transactional purchase, purchase.service.js) over the    *)
(* two persisted tables, events and purchases.                             *)
(*                                                                         *)
(* Scheduling: one JavaScript thread.  A handler runs without interruption *)
(* up to its next await; every await on the database is a point where      *)
(* other handlers and callbacks run, so each database statement is one     *)
(* step.                                                                   *)
(*                                                                         *)
(* Storage: the datasource of the Prisma schema is sqlite.  The code opens  *)
(* its transactions with prisma.$transaction, passes no isolation level    *)
(* and takes no lock of its own; the store gives what follows.  One        *)
(* transaction writes at a time: from its first write to its commit no     *)
(* other transaction writes.  A transaction that has read and then writes  *)
(* fails when another transaction has committed since its read.  The       *)
(* writes of a transaction become visible at its commit; the unique index  *)
(* on purchases.idempotencyKey rejects a second row for a key.  Reads      *)
(* outside a transaction see the committed data.                           *)
(***************************************************************************)
EXTENDS Integers, Sequences, FiniteSets, TLC

(* ---------------------------- bounds ----------------------------------- *)

\* idempotency keys clients use: 1..NumKeys
NumKeys == 2
\* largest quantity a request asks for
MaxReqQty == 2
\* largest totalSeats of an event
MaxSeats == 2
\* client requests that change state, and termination signals, in one run
MaxRequests == 3
\* event rows (the seeded one and those POST /events creates)
MaxEvents == 2
\* clock ticks in one run
MaxTicks == 1
\* the longest window of response times the metrics specification starts from
MaxWindow == 100
\* the window lengths it starts from: around the lengths where the p95 index
\* leaves the last place (21) and moves again (41)
WindowLengths == {0, 1, 2, 19, 20, 21, 40, 41, MaxWindow}

(* ------------------------ program constants ---------------------------- *)

\* getEvent serves from the cache while it is younger than this (ms)
CacheTtlMs == 5000
\* PurchaseService.purchaseTickets and purchaseSchema: at most 10 per request
MaxPurchaseQty == 10
\* model Event: totalSeats Int @default(5000); EventService.createEvent
DefaultTotalSeats == 5000

\* the clock advances in steps of the cache lifetime
TickMs == CacheTtlMs

Keys == 1..NumKeys
\* the absent eventId of a cache that was never filled (eventId: null)
NoEvent == 0
Min(a, b) == IF a < b THEN a ELSE b
\* quantities that pass validateBody(purchaseSchema): integers 1..10
Quantities == 1..Min(MaxReqQty, MaxPurchaseQty)

VARIABLES
  events,            \* table events, in creation order; the id is the index
                     \* (createdSold is no column: seatsSold at creation)
  purchases,         \* table purchases: a set of rows
  seatCache,         \* ticket.controller.js seatCache
  idempotencyCache,  \* ticket.controller.js idempotencyCache (a Map)
  tasks,             \* setImmediate callbacks of attemptPurchase, in order
                     \* (cachedEvent is history: seatCache.eventId when
                     \* the callback was scheduled)
  startup,           \* initializeSeatCache(), called at module load
  reads,             \* getEvent calls waiting on storage
  crud,              \* PurchaseService.purchaseTickets calls in flight
  successPurchases,  \* metricsStore.successPurchases
  failedPurchases,   \* metricsStore.failedPurchases
  lastResp,          \* the HTTP response the latest step sent, if it sent one
  now,               \* Date.now()
  requests,          \* client requests and termination signals so far
  totalRequests,     \* metricsStore.totalRequests
  requestTimes,      \* metricsStore.requestTimes, oldest first
  listeners,         \* the 'finish' listeners trackMetrics has put on the
                     \* responses that have not finished, per request
  recorded,          \* history: every response time recorded since the
                     \* latest reset(), in arrival order
  seed,              \* the seed utility: a process of its own on the database
  lifecycle          \* index.js: the listener, the log, the exit of the process

vars == <<events, purchases, seatCache, idempotencyCache, tasks, startup, reads,
          crud, successPurchases, failedPurchases, lastResp, now, requests,
          totalRequests, requestTimes, listeners,
                 recorded, seed, lifecycle>>

\* what trackMetrics alone writes: no handler touches it
telemetry == <<totalRequests, requestTimes, listeners,
                 recorded>>

(* ---------------------------- helpers ---------------------------------- *)

\* the object rest pattern { a, b, ...rest } = obj
Without(obj, fields) == [f \in DOMAIN obj \ fields |-> obj[f]]

\* Map.delete
MapDelete(map, k) == [x \in DOMAIN map \ {k} |-> map[x]]

\* Map.set
MapSet(map, k, v) == [x \in DOMAIN map \cup {k} |-> IF x = k THEN v ELSE map[x]]

RemoveAt(s, i) == SubSeq(s, 1, i - 1) \o SubSeq(s, i + 1, Len(s))

\* purchase.findUnique({ where: { idempotencyKey } })
RowsWithKey(k) == {r \in purchases : r.idempotencyKey = k}

\* event.findFirst({ orderBy: { createdAt: 'desc' } }): the id, or NoEvent
LatestEvent == Len(events)

\* event.findUnique({ where: { id } }) finds a row
EventExists(id) == id \in 1..Len(events)

\* mutant: the table has no unique index on idempotencyKey
UniqueKeyFreeNoIndex(k) == TRUE

\* the unique index on purchases.idempotencyKey lets a row for k in
UniqueKeyFree(k) == RowsWithKey(k) = {}

\* event.update({ data: { seatsSold: { increment: quantity } } })
IncrementSeatsSold(evs, id, quantity) ==
  [evs EXCEPT ![id].seatsSold = @ + quantity]

\* datasource db { provider = "sqlite" }: no transaction holds the write lock
\* (the success transaction of the fast path holds it from its update to its
\* commit; the other transactions write and commit in one step)
WriteLockFree == \A j \in 1..Len(tasks) : tasks[j].pc # "updated"

\* mutant: a commit leaves the snapshots of the open transactions valid
InvalidateSnapshotsNever(cs) == cs

\* datasource db { provider = "sqlite" }: a commit makes the snapshot of every
\* transaction that has read and not yet written stale
InvalidateSnapshots(cs) ==
  [j \in 1..Len(cs) |->
     IF cs[j].pc = "checked" THEN [cs[j] EXCEPT !.pc = "stale"] ELSE cs[j]]

NoResponse == [route |-> "none"]

\* no row (the null findFirst returns on an empty table)
NoRow == [id |-> NoEvent, totalSeats |-> 0, seatsSold |-> 0]

(* ------------------------- error middleware ---------------------------- *)

\* an error that carries no statusCode
NoStatusCode == 0

\* httpStatus[statusCode]
StatusText(statusCode) ==
  CASE statusCode = 400 -> "Bad Request"
    [] statusCode = 404 -> "Not Found"
    [] statusCode = 409 -> "Conflict"
    [] statusCode = 500 -> "Internal Server Error"

\* the trace Error.captureStackTrace(error, createApiError) leaves
CapturedStack == "at the caller of createApiError"

\* createApiError(statusCode, message, isOperational = true, stack = "");
\* marked: the error has its own property isOperational
createApiError(statusCode, message, isOperational, stack) ==
  [statusCode |-> statusCode, message |-> message, marked |-> TRUE,
   isOperational |-> isOperational,
   stack |-> IF stack # "" THEN stack ELSE CapturedStack]

\* an error some library raised: no property isOperational
ForeignError(statusCode, message, stack) ==
  [statusCode |-> statusCode, message |-> message, marked |-> FALSE,
   isOperational |-> FALSE, stack |-> stack]

\* isOperationalError(error): error.isOperational === true
isOperationalError(error) == error.marked /\ error.isOperational = TRUE

\* mutant: every error is wrapped as an error that is not operational
errorConverterWrapsAll(err) ==
  createApiError(IF err.statusCode # NoStatusCode THEN err.statusCode ELSE 500,
                 err.message, FALSE, err.stack)

\* errorConverter: what it passes to next()
errorConverter(err) ==
  IF err.statusCode = NoStatusCode \/ ~err.marked
  THEN LET statusCode == IF err.statusCode # NoStatusCode THEN err.statusCode
                         ELSE 500
       IN createApiError(statusCode,
                         IF err.message # "" THEN err.message
                         ELSE StatusText(statusCode),
                         FALSE, err.stack)
  ELSE err

\* mutant: the body keeps the statusCode of the error where the response is
\* forced to 500
errorHandlerBodyStatus(err) ==
  [status |-> IF ~isOperationalError(err) THEN 500 ELSE err.statusCode,
   body |-> [success |-> FALSE, statusCode |-> err.statusCode,
             message |-> IF ~isOperationalError(err) THEN StatusText(500)
                         ELSE err.message,
             stack |-> err.stack]]

\* mutant: every error is answered with its own status and message
errorHandlerKeepsStatus(err) ==
  [status |-> err.statusCode,
   body |-> [success |-> FALSE, statusCode |-> err.statusCode,
             message |-> err.message, stack |-> err.stack]]

\* errorHandler: res.status(statusCode).send(response)
errorHandler(err) ==
  LET statusCode == IF ~isOperationalError(err) THEN 500 ELSE err.statusCode
      message == IF ~isOperationalError(err) THEN StatusText(500)
                 ELSE err.message
  IN [status |-> statusCode,
      body |-> [success |-> FALSE, statusCode |-> statusCode,
                message |-> message, stack |-> err.stack]]

\* app.use(errorConverter); app.use(errorHandler): the response to an error a
\* middleware or handler passed to next()
ErrorResponse(err) == errorHandler(errorConverter(err))

\* the response to throw createApiError(statusCode, message) in a handler
ErrorReply(statusCode, message) ==
  ErrorResponse(createApiError(statusCode, message, TRUE, ""))

\* the response to an error of the store (a Prisma error: no statusCode, no
\* property isOperational)
InternalError == ErrorResponse(ForeignError(NoStatusCode, "prisma", "at prisma"))

\* the seed utility before its first creation; created: event1, event2,
\* event3, the ids of the rows it has created
SeedStart == [pc |-> "create", created |-> <<>>]

\* index.js when it is loaded: startServer() has not run, no server, an
\* empty log; closeCallbacks: the callbacks exitHandler has given to
\* server.close that have not run; exitCode counts once pc is "exited"
LifecycleStart ==
  [pc |-> "start", server |-> "unset", log |-> <<>>, closeCallbacks |-> 0,
   exitCode |-> 0]

(* ----------------------------- Init ------------------------------------ *)

\* the database the process starts on: no event yet, or one event with
\* seats left, as the seed utility or POST /events leaves it
InitialEvents ==
  {<<>>} \cup
  {<<[totalSeats |-> p[1], seatsSold |-> p[2], createdSold |-> p[2]]>> :
     p \in {q \in (1..MaxSeats) \X (0..MaxSeats) : q[2] < q[1]}}

Init ==
  /\ events \in InitialEvents
  /\ purchases = {}
  /\ seatCache = [eventId |-> NoEvent, totalSeats |-> 0, seatsSold |-> 0,
                  lastUpdated |-> 0]
  /\ idempotencyCache = <<>>
  /\ tasks = <<>>
  /\ startup = [pc |-> "query", snap |-> NoRow]
  /\ reads = <<>>
  /\ crud = <<>>
  /\ successPurchases = 0
  /\ failedPurchases = 0
  /\ lastResp = NoResponse
  /\ now = 0
  /\ requests = 0
  /\ totalRequests = 0
  /\ requestTimes = <<>>
  /\ listeners = <<>>
  /\ recorded = <<>>
  /\ seed = SeedStart
  /\ lifecycle = LifecycleStart

(* ------------------------- the clock ----------------------------------- *)

Tick ==
  /\ now < MaxTicks * TickMs
  /\ now' = now + TickMs
  /\ lastResp' = NoResponse
  /\ UNCHANGED <<telemetry, seed, lifecycle>>
  /\ UNCHANGED <<events, purchases, seatCache, idempotencyCache, tasks,
                 startup, reads, crud, successPurchases, failedPurchases,
                 requests>>

(* -------------------- fast path: cache start-up ------------------------ *)

\* the cache a row read from storage is turned into
CacheOf(row) ==
  [eventId |-> row.id, totalSeats |-> row.totalSeats,
   seatsSold |-> row.seatsSold, lastUpdated |-> now]

\* the row findFirst returns now (only called when an event exists)
LatestRow ==
  [id |-> LatestEvent, totalSeats |-> events[LatestEvent].totalSeats,
   seatsSold |-> events[LatestEvent].seatsSold]

\* initializeSeatCache: await prisma.event.findFirst(...)
InitializeSeatCacheQuery ==
  /\ startup.pc = "query"
  /\ \/ startup' = IF LatestEvent = NoEvent
                   THEN [pc |-> "done", snap |-> NoRow]
                   ELSE [pc |-> "assign", snap |-> LatestRow]
     \/ \* the query throws: catch (error) { logger.error(...) }
        startup' = [pc |-> "done", snap |-> NoRow]
  /\ lastResp' = NoResponse
  /\ UNCHANGED <<telemetry, seed, lifecycle>>
  /\ UNCHANGED <<events, purchases, seatCache, idempotencyCache, tasks, reads,
                 crud, successPurchases, failedPurchases, now, requests>>

\* initializeSeatCache: if (event) seatCache = {...}
InitializeSeatCacheAssign ==
  /\ startup.pc = "assign"
  /\ seatCache' = CacheOf(startup.snap)
  /\ startup' = [pc |-> "done", snap |-> NoRow]
  /\ lastResp' = NoResponse
  /\ UNCHANGED <<telemetry, seed, lifecycle>>
  /\ UNCHANGED <<events, purchases, idempotencyCache, tasks, reads, crud,
                 successPurchases, failedPurchases, now, requests>>

(* -------------------- fast path: GET /event ---------------------------- *)

\* mutant: a cache of exactly 5000 ms still counts as recent
CacheIsFreshInclusive ==
  seatCache.eventId # NoEvent /\ now - seatCache.lastUpdated <= CacheTtlMs

\* mutant: the cache never counts as recent
CacheIsFreshNever == FALSE

\* getEvent: if (seatCache.eventId && Date.now() - seatCache.lastUpdated < 5000)
CacheIsFresh ==
  seatCache.eventId # NoEvent /\ now - seatCache.lastUpdated < CacheTtlMs

SeatStatus(total, sold) ==
  [totalSeats |-> total, seatsSold |-> sold, seatsRemaining |-> total - sold]

\* getEvent, up to its response (fresh cache) or to its await on storage
getEvent ==
  /\ IF CacheIsFresh
     THEN /\ lastResp' = [route |-> "GET /event", status |-> 200,
                          body |-> SeatStatus(seatCache.totalSeats,
                                              seatCache.seatsSold)]
          /\ UNCHANGED <<reads, requests>>
     ELSE /\ requests < MaxRequests
          /\ requests' = requests + 1
          /\ reads' = Append(reads, [pc |-> "query", snap |-> NoRow])
          /\ lastResp' = NoResponse
  /\ UNCHANGED <<telemetry, seed, lifecycle>>
  /\ UNCHANGED <<events, purchases, seatCache, idempotencyCache, tasks, startup,
                 crud, successPurchases, failedPurchases, now>>

\* getEvent: await prisma.event.findFirst(...); no event: 404 'No event found'
getEventQuery(i) ==
  /\ reads[i].pc = "query"
  /\ IF LatestEvent = NoEvent
     THEN /\ reads' = RemoveAt(reads, i)
          /\ lastResp' = [route |-> "GET /event"] @@
                            ErrorReply(404, "No event found")
     ELSE /\ reads' = [reads EXCEPT ![i] = [pc |-> "assign", snap |-> LatestRow]]
          /\ lastResp' = NoResponse
  /\ UNCHANGED <<telemetry, seed, lifecycle>>
  /\ UNCHANGED <<events, purchases, seatCache, idempotencyCache, tasks, startup,
                 crud, successPurchases, failedPurchases, now, requests>>

\* getEvent: seatCache = {...}; res.status(200).json(...)
getEventAssign(i) ==
  /\ reads[i].pc = "assign"
  /\ seatCache' = CacheOf(reads[i].snap)
  /\ lastResp' = [route |-> "GET /event", status |-> 200,
                  body |-> SeatStatus(reads[i].snap.totalSeats,
                                      reads[i].snap.seatsSold)]
  /\ reads' = RemoveAt(reads, i)
  /\ UNCHANGED <<telemetry, seed, lifecycle>>
  /\ UNCHANGED <<events, purchases, idempotencyCache, tasks, startup, crud,
                 successPurchases, failedPurchases, now, requests>>

(* -------------------- fast path: POST /purchase ------------------------ *)

\* attemptPurchase: const seatsRemaining = seatCache.totalSeats - seatCache.seatsSold
SeatsRemaining == seatCache.totalSeats - seatCache.seatsSold

\* attemptPurchase: soldOutResponse
SoldOutResponse ==
  [error |-> "SOLD_OUT", statusCode |-> 409, seatsRemaining |-> SeatsRemaining]

\* attemptPurchase: successResponse (seatsRemaining after the increment)
SuccessResponse(quantity) ==
  [success |-> TRUE, seatsRemaining |-> SeatsRemaining - quantity,
   statusCode |-> 200]

\* mutant: the availability check is off by one
IsSoldOutOffByOne(quantity) == quantity > SeatsRemaining + 1

\* mutant: an uninitialised cache is not sold out
IsSoldOutOnceInitialised(quantity) ==
  seatCache.eventId # NoEvent /\ quantity > SeatsRemaining

\* attemptPurchase: if (quantity > seatsRemaining)
IsSoldOut(quantity) == quantity > SeatsRemaining

\* mutant: attemptPurchase computes its result without the idempotency check
AttemptResultNoReplay(idempotencyKey, quantity) ==
  IF IsSoldOut(quantity) THEN SoldOutResponse ELSE SuccessResponse(quantity)

\* attemptPurchase: what it returns
AttemptResult(idempotencyKey, quantity) ==
  IF idempotencyKey \in DOMAIN idempotencyCache
  THEN [f \in DOMAIN idempotencyCache[idempotencyKey] \cup {"isIdempotent"} |->
          IF f = "isIdempotent" THEN TRUE
          ELSE idempotencyCache[idempotencyKey][f]]
  ELSE IF IsSoldOut(quantity) THEN SoldOutResponse
  ELSE SuccessResponse(quantity)

\* mutant: the reservation is counted twice
ReservedSeatsSoldTwice(quantity) == seatCache.seatsSold + quantity + quantity

\* attemptPurchase: the new value of seatCache.seatsSold
ReservedSeatsSold(quantity) == seatCache.seatsSold + quantity

\* mutant: the success response is stored by the deferred step, not at once
attemptPurchaseStoresLater(idempotencyKey, quantity) ==
  IF idempotencyKey \in DOMAIN idempotencyCache
  THEN UNCHANGED <<seatCache, idempotencyCache, tasks>>
  ELSE IF IsSoldOut(quantity)
  THEN /\ idempotencyCache' =
            MapSet(idempotencyCache, idempotencyKey, SoldOutResponse)
       /\ tasks' = Append(tasks,
            [kind |-> "soldout", key |-> idempotencyKey, quantity |-> quantity,
             resp |-> SoldOutResponse, pc |-> "scheduled",
             updEvent |-> NoEvent, rowEvent |-> NoEvent,
             cachedEvent |-> seatCache.eventId])
       /\ UNCHANGED seatCache
  ELSE /\ seatCache' = [seatCache EXCEPT !.seatsSold = ReservedSeatsSold(quantity)]
       /\ UNCHANGED idempotencyCache
       /\ tasks' = Append(tasks,
            [kind |-> "success", key |-> idempotencyKey, quantity |-> quantity,
             resp |-> SuccessResponse(quantity), pc |-> "scheduled",
             updEvent |-> NoEvent, rowEvent |-> NoEvent,
             cachedEvent |-> seatCache.eventId])

\* attemptPurchase: its effect on the two caches and the callback it schedules
attemptPurchase(idempotencyKey, quantity) ==
  IF idempotencyKey \in DOMAIN idempotencyCache
  THEN UNCHANGED <<seatCache, idempotencyCache, tasks>>
  ELSE IF IsSoldOut(quantity)
  THEN /\ idempotencyCache' =
            MapSet(idempotencyCache, idempotencyKey, SoldOutResponse)
       /\ tasks' = Append(tasks,
            [kind |-> "soldout", key |-> idempotencyKey, quantity |-> quantity,
             resp |-> SoldOutResponse, pc |-> "scheduled",
             updEvent |-> NoEvent, rowEvent |-> NoEvent,
             cachedEvent |-> seatCache.eventId])
       /\ UNCHANGED seatCache
  ELSE /\ seatCache' = [seatCache EXCEPT !.seatsSold = ReservedSeatsSold(quantity)]
       /\ idempotencyCache' =
            MapSet(idempotencyCache, idempotencyKey, SuccessResponse(quantity))
       /\ tasks' = Append(tasks,
            [kind |-> "success", key |-> idempotencyKey, quantity |-> quantity,
             resp |-> SuccessResponse(quantity), pc |-> "scheduled",
             updEvent |-> NoEvent, rowEvent |-> NoEvent,
             cachedEvent |-> seatCache.eventId])

\* purchaseTickets: the status and body sent for a result of attemptPurchase
PurchaseReply(result) ==
  IF "error" \in DOMAIN result
  THEN [status |-> result.statusCode, body |-> [error |-> result.error]]
  ELSE IF "isIdempotent" \in DOMAIN result
  THEN [status |-> result.statusCode,
        body |-> Without(result, {"statusCode", "isIdempotent"})]
  ELSE [status |-> result.statusCode, body |-> Without(result, {"statusCode"})]

\* purchaseTickets (POST /purchase), after the validation middleware
purchaseTickets(idempotencyKey, quantity) ==
  LET result == AttemptResult(idempotencyKey, quantity)
      reply == PurchaseReply(result) IN
  /\ requests < MaxRequests
  /\ requests' = requests + 1
  /\ attemptPurchase(idempotencyKey, quantity)
  /\ failedPurchases' =
       IF "error" \in DOMAIN result THEN failedPurchases + 1 ELSE failedPurchases
  /\ successPurchases' =
       IF "error" \notin DOMAIN result /\ "isIdempotent" \notin DOMAIN result
       THEN successPurchases + 1 ELSE successPurchases
  /\ lastResp' = [route |-> "POST /purchase", key |-> idempotencyKey,
                  quantity |-> quantity, status |-> reply.status,
                  body |-> reply.body,
                  replay |-> "isIdempotent" \in DOMAIN result]
  /\ UNCHANGED <<telemetry, seed, lifecycle>>
  /\ UNCHANGED <<events, purchases, startup, reads, crud, now>>

(* ------------- fast path: the deferred persistence steps --------------- *)

\* the row the sold-out callback creates
SoldOutRow(t) ==
  [idempotencyKey |-> t.key, eventId |-> seatCache.eventId,
   quantity |-> t.quantity, statusCode |-> 409, wasSuccessful |-> "false"]

\* the row the success transaction creates
SuccessRow(t) ==
  [idempotencyKey |-> t.key, eventId |-> t.rowEvent,
   quantity |-> t.quantity, statusCode |-> 200, wasSuccessful |-> "true"]

\* sold-out callback: await prisma.purchase.create(...); errors are ignored
SoldOutRecord(i) ==
  /\ tasks[i].kind = "soldout" /\ tasks[i].pc = "scheduled"
  /\ \/ /\ WriteLockFree
        /\ UniqueKeyFree(tasks[i].key)
        /\ purchases' = purchases \cup {SoldOutRow(tasks[i])}
        /\ tasks' = [tasks EXCEPT ![i].pc = "committed",
                                  ![i].rowEvent = seatCache.eventId]
        /\ crud' = InvalidateSnapshots(crud)
     \/ \* the create throws (unique index, busy store, storage error):
        \* catch, ignore
        /\ tasks' = [tasks EXCEPT ![i].pc = "failed"]
        /\ UNCHANGED <<purchases, crud>>
  /\ lastResp' = NoResponse
  /\ UNCHANGED <<telemetry, seed, lifecycle>>
  /\ UNCHANGED <<events, seatCache, idempotencyCache, startup, reads,
                 successPurchases, failedPurchases, now, requests>>

\* success transaction: await tx.event.update({ where: { id: seatCache.eventId } ... })
DeferredUpdate(i) ==
  /\ tasks[i].kind = "success" /\ tasks[i].pc = "scheduled"
  /\ WriteLockFree
  /\ EventExists(seatCache.eventId)
  /\ tasks' = [tasks EXCEPT ![i].pc = "updated",
                            ![i].updEvent = seatCache.eventId]
  /\ lastResp' = NoResponse
  /\ UNCHANGED <<telemetry, seed, lifecycle>>
  /\ UNCHANGED <<events, purchases, seatCache, idempotencyCache, startup,
                 reads, crud, successPurchases, failedPurchases, now, requests>>

\* success transaction: await tx.purchase.create({ data: { eventId:
\* seatCache.eventId ... } }), and the commit, which makes the increment and
\* the row visible (the row is private to the transaction until then, so the
\* two are one step)
DeferredCommit(i) ==
  /\ tasks[i].kind = "success" /\ tasks[i].pc = "updated"
  /\ UniqueKeyFree(tasks[i].key)
  /\ events' = IncrementSeatsSold(events, tasks[i].updEvent, tasks[i].quantity)
  /\ purchases' = purchases \cup
       {SuccessRow([tasks[i] EXCEPT !.rowEvent = seatCache.eventId])}
  /\ tasks' = [tasks EXCEPT ![i].pc = "committed",
                            ![i].rowEvent = seatCache.eventId]
  /\ crud' = InvalidateSnapshots(crud)
  /\ lastResp' = NoResponse
  /\ UNCHANGED <<telemetry, seed, lifecycle>>
  /\ UNCHANGED <<seatCache, idempotencyCache, startup, reads,
                 successPurchases, failedPurchases, now, requests>>

\* catch (error): seatCache.seatsSold -= quantity
RolledBackSeatsSold(quantity) == seatCache.seatsSold - quantity

\* mutant: the rollback forgets to delete the key
RolledBackCacheKept(idempotencyKey) == idempotencyCache

\* mutant: the rollback clears the whole cache
RolledBackCacheCleared(idempotencyKey) == <<>>

\* catch (error): idempotencyCache.delete(idempotencyKey)
RolledBackCache(idempotencyKey) == MapDelete(idempotencyCache, idempotencyKey)

\* success transaction throws (unique index, missing event, busy store,
\* timeout, storage error): nothing is committed and the catch block rolls
\* the caches back
DeferredRollback(i) ==
  /\ tasks[i].kind = "success"
  /\ tasks[i].pc \in {"scheduled", "updated"}
  /\ seatCache' = [seatCache EXCEPT
                     !.seatsSold = RolledBackSeatsSold(tasks[i].quantity)]
  /\ idempotencyCache' = RolledBackCache(tasks[i].key)
  /\ tasks' = [tasks EXCEPT ![i].pc = "failed"]
  /\ lastResp' = NoResponse
  /\ UNCHANGED <<telemetry, seed, lifecycle>>
  /\ UNCHANGED <<events, purchases, startup, reads, crud, successPurchases,
                 failedPurchases, now, requests>>

\* mutant: the signal also drops the callbacks that wait to run
SigtermCancelsTasks ==
  /\ requests < MaxRequests
  /\ requests' = requests + 1
  /\ idempotencyCache' = <<>>
  /\ tasks' = <<>>
  /\ lastResp' = NoResponse
  /\ UNCHANGED <<telemetry, seed, lifecycle>>
  /\ UNCHANGED <<events, purchases, seatCache, startup, reads, crud,
                 successPurchases, failedPurchases, now>>

\* process.on('SIGTERM', () => { idempotencyCache.clear(); })
Sigterm ==
  /\ requests < MaxRequests
  /\ requests' = requests + 1
  /\ idempotencyCache' = <<>>
  /\ lastResp' = NoResponse
  /\ UNCHANGED <<telemetry, seed, lifecycle>>
  /\ UNCHANGED <<events, purchases, seatCache, tasks, startup, reads, crud,
                 successPurchases, failedPurchases, now>>

(* -------------------- CRUD path: POST /purchases ----------------------- *)

\* what a request body may carry: 0 stands for a missing (falsy) field
NoField == 0
CrudEventIds == {NoField} \cup 1..MaxEvents
CrudKeys == {NoField} \cup Keys
CrudQuantities == {-1, NoField} \cup 1..MaxReqQty \cup {MaxPurchaseQty + 1}

\* statusCode and wasSuccessful of a row the CRUD path creates: null
NoStatus == 0

\* mutant: the availability check refuses the last seat
hasAvailableSeatsStrict(event, requestedQuantity) ==
  (event.seatsSold + requestedQuantity) < event.totalSeats

\* hasAvailableSeats(event, requestedQuantity)
hasAvailableSeats(event, requestedQuantity) ==
  (event.seatsSold + requestedQuantity) <= event.totalSeats

\* mutant: the input validation lets every request through
ValidationErrorNone(eventId, quantity, idempotencyKey) == ""

\* PurchaseService.purchaseTickets: the input validation, "" when it passes
ValidationError(eventId, quantity, idempotencyKey) ==
  IF eventId = NoField \/ quantity = NoField \/ idempotencyKey = NoField
  THEN "Event ID, quantity, and idempotency key are required"
  ELSE IF quantity <= 0 THEN "Quantity must be greater than 0"
  ELSE IF quantity > MaxPurchaseQty
  THEN "Cannot purchase more than 10 tickets at once"
  ELSE ""

\* the row tx.purchase.create({ data: { eventId, quantity, idempotencyKey } }) adds
CrudRow(c) ==
  [idempotencyKey |-> c.key, eventId |-> c.eventId, quantity |-> c.quantity,
   statusCode |-> NoStatus, wasSuccessful |-> "null"]

CrudResp(c, reply) ==
  [route |-> "POST /purchases", key |-> c.key, quantity |-> c.quantity,
   eventId |-> c.eventId, status |-> reply.status, body |-> reply.body]

\* the controller's reply for a result of PurchaseService.purchaseTickets
PurchaseCreatedReply(row, isNewPurchase) ==
  [status |-> IF isNewPurchase THEN 201 ELSE 200,
   body |-> [success |-> TRUE,
             message |-> IF isNewPurchase THEN "Purchase successful"
                         ELSE "Purchase already exists with this idempotency key",
             data |-> row, isNewPurchase |-> isNewPurchase]]

\* mutant: the lookup of an existing purchase never finds one
getPurchaseNotFound(idempotencyKey) == {}

\* getPurchaseByIdempotencyKey: the rows findUnique finds (none or one)
getPurchaseByIdempotencyKey(idempotencyKey) == RowsWithKey(idempotencyKey)

\* PurchaseService.purchaseTickets: validation and the lookup of an existing
\* purchase; a request that passes both goes on to the transaction
PurchaseServicePurchaseTickets(eventId, quantity, idempotencyKey) ==
  LET c == [eventId |-> eventId, quantity |-> quantity, key |-> idempotencyKey,
            pc |-> "begin"]
      invalid == ValidationError(eventId, quantity, idempotencyKey) IN
  /\ requests < MaxRequests
  /\ requests' = requests + 1
  /\ IF invalid # ""
     THEN /\ lastResp' = CrudResp(c, ErrorReply(400, invalid))
          /\ UNCHANGED crud
     ELSE IF getPurchaseByIdempotencyKey(idempotencyKey) # {}
     THEN /\ lastResp' = CrudResp(c, PurchaseCreatedReply(
                 CHOOSE r \in getPurchaseByIdempotencyKey(idempotencyKey) : TRUE,
                 FALSE))
          /\ UNCHANGED crud
     ELSE /\ crud' = Append(crud, c)
          /\ lastResp' = NoResponse
  /\ UNCHANGED <<telemetry, seed, lifecycle>>
  /\ UNCHANGED <<events, purchases, seatCache, idempotencyCache, tasks, startup,
                 reads, successPurchases, failedPurchases, now>>

\* transaction: tx.event.findUnique, then the hasAvailableSeats check
CrudFindEvent(i) ==
  LET c == crud[i] IN
  /\ c.pc = "begin"
  /\ IF ~EventExists(c.eventId)
     THEN /\ lastResp' = CrudResp(c, ErrorReply(404, "Event not found"))
          /\ crud' = RemoveAt(crud, i)
     ELSE IF ~hasAvailableSeats(events[c.eventId], c.quantity)
     THEN /\ lastResp' = CrudResp(c, ErrorReply(409, "Not enough seats available"))
          /\ crud' = RemoveAt(crud, i)
     ELSE /\ crud' = [crud EXCEPT ![i].pc = "checked"]
          /\ lastResp' = NoResponse
  /\ UNCHANGED <<telemetry, seed, lifecycle>>
  /\ UNCHANGED <<events, purchases, seatCache, idempotencyCache, tasks, startup,
                 reads, successPurchases, failedPurchases, now, requests>>

\* transaction: tx.purchase.create, tx.event.update with the increment, and
\* the commit (the writes are private to the transaction until the commit,
\* so the three are one step); a transaction whose snapshot is stale cannot
\* write
CrudCommit(i) ==
  LET c == crud[i] IN
  /\ c.pc = "checked"
  /\ WriteLockFree
  /\ UniqueKeyFree(c.key)
  /\ events' = IncrementSeatsSold(events, c.eventId, c.quantity)
  /\ purchases' = purchases \cup {CrudRow(c)}
  /\ lastResp' = CrudResp(c, PurchaseCreatedReply(CrudRow(c), TRUE))
  /\ crud' = InvalidateSnapshots(RemoveAt(crud, i))
  /\ UNCHANGED <<telemetry, seed, lifecycle>>
  /\ UNCHANGED <<seatCache, idempotencyCache, tasks, startup, reads,
                 successPurchases, failedPurchases, now, requests>>

\* transaction throws a Prisma error (unique index, stale snapshot, busy
\* store, timeout, storage error): nothing is committed and the client is
\* answered 500
CrudAbort(i) ==
  /\ crud[i].pc \in {"begin", "checked", "stale"}
  /\ lastResp' = CrudResp(crud[i], InternalError)
  /\ crud' = RemoveAt(crud, i)
  /\ UNCHANGED <<telemetry, seed, lifecycle>>
  /\ UNCHANGED <<events, purchases, seatCache, idempotencyCache, tasks, startup,
                 reads, successPurchases, failedPurchases, now, requests>>

(* -------------------- CRUD path: POST /events -------------------------- *)

\* totalSeats of a request body: omitted, or a number
NoTotalSeats == [given |-> FALSE]
Seats(n) == [given |-> TRUE, value |-> n]
CreateSeats == {NoTotalSeats} \cup {Seats(n) : n \in {-1, 0} \cup 1..MaxSeats}

\* mutant: an omitted totalSeats is taken as 0
TotalSeatsOrZero(totalSeats) ==
  IF totalSeats = NoTotalSeats THEN 0 ELSE totalSeats.value

\* EventService.createEvent: const { name, totalSeats = 5000 } = eventData
TotalSeatsOrDefault(totalSeats) ==
  IF totalSeats = NoTotalSeats THEN DefaultTotalSeats ELSE totalSeats.value

\* EventService.createEvent via POST /events; hasName: the body has a name
createEvent(hasName, totalSeats) ==
  /\ Len(events) < MaxEvents
  /\ requests < MaxRequests
  /\ requests' = requests + 1
  /\ IF ~hasName
     THEN /\ lastResp' = [route |-> "POST /events"] @@
                         ErrorReply(400, "Event name is required")
          /\ UNCHANGED <<events, crud>>
     ELSE IF TotalSeatsOrDefault(totalSeats) <= 0
     THEN /\ lastResp' = [route |-> "POST /events"] @@
                         ErrorReply(400, "Total seats must be greater than 0")
          /\ UNCHANGED <<events, crud>>
     ELSE /\ WriteLockFree
          /\ crud' = InvalidateSnapshots(crud)
          /\ events' = Append(events,
                 [totalSeats |-> TotalSeatsOrDefault(totalSeats), seatsSold |-> 0,
                  createdSold |-> 0])
          /\ lastResp' = [route |-> "POST /events", status |-> 201,
                          body |-> [success |-> TRUE,
                                    message |-> "Event created successfully",
                                    data |-> Len(events) + 1]]
  /\ UNCHANGED <<telemetry, seed, lifecycle>>
  /\ UNCHANGED <<purchases, seatCache, idempotencyCache, tasks, startup, reads,
                 successPurchases, failedPurchases, now>>

(* ------------- fast path: the validation middleware -------------------- *)

\* idempotencyKeySchema: z.string().max(255)
MaxKeyLength == 255

\* the quantity of a request body: undefined, a string, or a number, which is
\* kept as twice its value so that halves can be told from integers
NoQuantity == [type |-> "undefined"]
Number(twice) == [type |-> "number", twice |-> twice]
TwiceValues ==
  {-2, 0, 1, 2, 2 * MaxPurchaseQty, 2 * MaxPurchaseQty + 1,
   2 * MaxPurchaseQty + 2}
BodyQuantities ==
  {NoQuantity, [type |-> "string"]} \cup {Number(n) : n \in TwiceValues}

\* the Idempotency-Key header: absent, or a string of some length; the strings
\* that are keys clients use have lengths at both ends of the allowed range
NoHeader == [present |-> FALSE]
KeyLength(k) == IF k = 1 THEN 1 ELSE IF k = 2 THEN MaxKeyLength ELSE 36
HeaderOf(k) == [present |-> TRUE, length |-> KeyLength(k), key |-> k]
HeaderValues ==
  {NoHeader,
   [present |-> TRUE, length |-> 0, key |-> NoField],
   [present |-> TRUE, length |-> MaxKeyLength + 1, key |-> NoField]}
  \cup {HeaderOf(k) : k \in Keys}

\* error.errors.map(e => e.message).join(', ')
RECURSIVE JoinMessages(_)
JoinMessages(ms) ==
  IF ms = <<>> THEN ""
  ELSE IF Len(ms) = 1 THEN ms[1]
  ELSE ms[1] \o ", " \o JoinMessages(Tail(ms))

\* mutant: the schema has no upper limit
purchaseSchemaIssuesNoMax(quantity) ==
  IF quantity.type # "number" THEN <<"Required">>
  ELSE (IF quantity.twice % 2 # 0 THEN <<"Quantity must be an integer">>
        ELSE <<>>)
       \o (IF quantity.twice < 2 THEN <<"Quantity must be at least 1">>
           ELSE <<>>)

\* purchaseSchema.parse: the messages of the issues it raises for a quantity
purchaseSchemaIssues(quantity) ==
  IF quantity.type = "undefined" THEN <<"Required">>
  ELSE IF quantity.type # "number"
  THEN <<"Expected number, received " \o quantity.type>>
  ELSE (IF quantity.twice % 2 # 0 THEN <<"Quantity must be an integer">>
        ELSE <<>>)
       \o (IF quantity.twice < 2 * 1 THEN <<"Quantity must be at least 1">>
           ELSE <<>>)
       \o (IF quantity.twice > 2 * MaxPurchaseQty
           THEN <<"Quantity cannot exceed 10">> ELSE <<>>)

\* idempotencyKeySchema.parse: the messages of the issues for a header string
idempotencyKeySchemaIssues(header) ==
  (IF header.length < 1 THEN <<"Idempotency-Key header is required">>
   ELSE <<>>)
  \o (IF header.length > MaxKeyLength
      THEN <<"Idempotency-Key header too long">> ELSE <<>>)

\* the body the two middlewares send with status 400
ValidationReply(error, message) ==
  [route |-> "POST /purchase", status |-> 400,
   body |-> [success |-> FALSE, error |-> error, message |-> message]]

\* validateBody(purchaseSchema): "next" or the 400 response
validateBody(quantity) ==
  IF purchaseSchemaIssues(quantity) = <<>> THEN [route |-> "next"]
  ELSE ValidationReply("VALIDATION_ERROR",
                       JoinMessages(purchaseSchemaIssues(quantity)))

\* mutant: the header check passes every header that is present
validateIdempotencyHeaderPresentOnly(header) ==
  IF ~header.present \/ header.length = 0
  THEN ValidationReply("MISSING_IDEMPOTENCY_KEY",
                       "Idempotency-Key header is required")
  ELSE [route |-> "next"]

\* validateIdempotencyHeader(): "next" or the 400 response; !idempotencyKey
\* holds of an absent header and of the empty string
validateIdempotencyHeader(header) ==
  IF ~header.present \/ header.length = 0
  THEN ValidationReply("MISSING_IDEMPOTENCY_KEY",
                       "Idempotency-Key header is required")
  ELSE IF idempotencyKeySchemaIssues(header) # <<>>
  THEN ValidationReply("INVALID_IDEMPOTENCY_KEY",
                       JoinMessages(idempotencyKeySchemaIssues(header)))
  ELSE [route |-> "next"]

\* mutant: a request the body validation rejects counts as a failed purchase
PostPurchaseCountsRejected(header, quantity) ==
  IF validateIdempotencyHeader(header).route # "next"
  THEN /\ lastResp' = validateIdempotencyHeader(header)
       /\ UNCHANGED <<telemetry, seed, lifecycle>>
       /\ UNCHANGED <<events, purchases, seatCache, idempotencyCache, tasks,
                      startup, reads, crud, successPurchases, failedPurchases,
                      now, requests>>
  ELSE IF validateBody(quantity).route # "next"
  THEN /\ lastResp' = validateBody(quantity)
       /\ failedPurchases' = failedPurchases + 1
       /\ UNCHANGED <<telemetry, seed, lifecycle>>
       /\ UNCHANGED <<events, purchases, seatCache, idempotencyCache, tasks,
                      startup, reads, crud, successPurchases,
                      now, requests>>
  ELSE purchaseTickets(header.key, quantity.twice \div 2)

\* router.post('/purchase', validateIdempotencyHeader(),
\* validateBody(purchaseSchema), ticketController.purchaseTickets)
PostPurchase(header, quantity) ==
  IF validateIdempotencyHeader(header).route # "next"
  THEN /\ lastResp' = validateIdempotencyHeader(header)
       /\ UNCHANGED <<telemetry, seed, lifecycle>>
       /\ UNCHANGED <<events, purchases, seatCache, idempotencyCache, tasks,
                      startup, reads, crud, successPurchases, failedPurchases,
                      now, requests>>
  ELSE IF validateBody(quantity).route # "next"
  THEN /\ lastResp' = validateBody(quantity)
       /\ UNCHANGED <<telemetry, seed, lifecycle>>
       /\ UNCHANGED <<events, purchases, seatCache, idempotencyCache, tasks,
                      startup, reads, crud, successPurchases, failedPurchases,
                      now, requests>>
  ELSE purchaseTickets(header.key, quantity.twice \div 2)

(* ------------------------------ metrics -------------------------------- *)

\* MetricsStore.maxRequestTimes
maxRequestTimes == 1000

\* the routes of the application and what answers each: a route of app.js
\* ("app"), the router the v1 router mounts at /events or /purchases, the
\* ticket router it mounts at / after them, or nothing
RouteTable ==
  [route \in {"GET /", "POST /api/v1/events", "POST /api/v1/purchases",
              "GET /api/v1/event", "POST /api/v1/purchase", "GET /api/v1/stats",
              "GET /api/v1/nothing", "GET /nothing"} |->
     CASE route = "GET /" -> "app"
       [] route = "POST /api/v1/events" -> "/events"
       [] route = "POST /api/v1/purchases" -> "/purchases"
       [] route \in {"GET /api/v1/event", "POST /api/v1/purchase",
                     "GET /api/v1/stats"} -> "/"
       [] OTHER -> "none"]

\* mutant: the ticket router has no trackMetrics of its own
ReachesTicketRouterNever(route) == FALSE

\* the request enters the ticket router, whose first layer is
\* router.use(trackMetrics): it is under /api/v1 and neither the events router
\* nor the purchases router, which are tried first, answers it
ReachesTicketRouter(route) ==
  RouteTable[route] = "/" \/ route = "GET /api/v1/nothing"

\* app.use(trackMetrics) on a request that arrives: incrementRequests() and a
\* 'finish' listener that remembers startTime = Date.now()
Arrive(route) ==
  /\ requests < MaxRequests
  /\ requests' = requests + 1
  /\ totalRequests' = totalRequests + 1
  /\ listeners' = Append(listeners,
       [route |-> route, startTimes |-> <<now>>, stage |-> "app"])
  /\ lastResp' = NoResponse
  /\ UNCHANGED <<events, purchases, seatCache, idempotencyCache, tasks,
                 startup, reads, crud, successPurchases, failedPurchases, now,
                 requestTimes, recorded, seed, lifecycle>>

\* router.use(trackMetrics) of the ticket router, on a request that has
\* passed the middleware of app.js
RouterTrackMetrics(i) ==
  /\ listeners[i].stage = "app"
  /\ ReachesTicketRouter(listeners[i].route)
  /\ totalRequests' = totalRequests + 1
  /\ listeners' = [listeners EXCEPT
                     ![i].startTimes = Append(@, now), ![i].stage = "router"]
  /\ lastResp' = NoResponse
  /\ UNCHANGED <<events, purchases, seatCache, idempotencyCache, tasks,
                 startup, reads, crud, successPurchases, failedPurchases, now,
                 requests, requestTimes, recorded, seed, lifecycle>>

\* mutant: a full window drops the sample that arrives
recordResponseTimeDropsNewest(times, responseTime) ==
  IF Len(times) + 1 > maxRequestTimes
  THEN times
  ELSE Append(times, responseTime)

\* MetricsStore.recordResponseTime(): push, then shift once the window is
\* longer than maxRequestTimes
recordResponseTime(times, responseTime) ==
  IF Len(times) + 1 > maxRequestTimes
  THEN Tail(Append(times, responseTime))
  ELSE Append(times, responseTime)

\* the 'finish' listeners of one response, run in the order they were added:
\* each records Date.now() - startTime
RECURSIVE RunListeners(_, _)
RunListeners(times, startTimes) ==
  IF startTimes = <<>> THEN times
  ELSE RunListeners(recordResponseTime(times, now - Head(startTimes)),
                    Tail(startTimes))

\* the response of request i finishes, once the request has been through
\* every trackMetrics on its way
ResponseFinish(i) ==
  /\ listeners[i].stage = "router" \/ ~ReachesTicketRouter(listeners[i].route)
  /\ requestTimes' = RunListeners(requestTimes, listeners[i].startTimes)
  /\ recorded' = recorded \o [j \in 1..Len(listeners[i].startTimes) |->
                                now - listeners[i].startTimes[j]]
  /\ listeners' = RemoveAt(listeners, i)
  /\ lastResp' = NoResponse
  /\ UNCHANGED <<events, purchases, seatCache, idempotencyCache, tasks,
                 startup, reads, crud, successPurchases, failedPurchases, now,
                 requests, totalRequests, seed, lifecycle>>

\* MetricsStore.reset(), behind resetMetrics()
reset ==
  /\ totalRequests' = 0
  /\ successPurchases' = 0
  /\ failedPurchases' = 0
  /\ requestTimes' = <<>>
  /\ recorded' = <<>>
  /\ lastResp' = NoResponse
  /\ UNCHANGED <<events, purchases, seatCache, idempotencyCache, tasks,
                 startup, reads, crud, now, requests, listeners, seed, lifecycle>>

\* where Array.prototype.sort with the comparator (a, b) => a - b puts the
\* sample at place i: behind the smaller samples and, the sort being stable,
\* behind the equal samples that arrived before it
sortedPlace(times, i) ==
  Cardinality({j \in DOMAIN times : times[j] < times[i]})
    + Cardinality({j \in 1..(i - 1) : times[j] = times[i]}) + 1

\* [...requestTimes].sort((a, b) => a - b)
sorted(times) ==
  [k \in DOMAIN times |->
     times[CHOOSE i \in DOMAIN times : sortedPlace(times, i) = k]]

\* the last place of the window: the largest sample
indexLast(length) == length - 1

\* Math.ceil(length * 0.95) - 1, zero-based.  The double nearest to 0.95 lies
\* below it by less than 5 * 10^-17, so for a length up to maxRequestTimes the
\* product rounds to the whole number when 19 * length / 20 is one and stays
\* 0.05 away from the whole numbers otherwise: the ceiling is the exact one
index(length) == (length * 95 + 99) \div 100 - 1

\* MetricsStore.getP95Latency(); sorted[index] || 0 turns a sample 0 into 0
getP95Latency(times) ==
  IF Len(times) = 0 THEN 0
  ELSE IF sorted(times)[index(Len(times)) + 1] = 0 THEN 0
  ELSE sorted(times)[index(Len(times)) + 1]

\* MetricsStore.getMetrics()
getMetrics ==
  [totalRequests |-> totalRequests, successPurchases |-> successPurchases,
   failedPurchases |-> failedPurchases,
   p95Latency |-> getP95Latency(requestTimes)]

\* ticket.controller.js getStats(): Math.round(p95Latency * 100) / 100 leaves a
\* whole number of milliseconds as it is
getStats ==
  /\ lastResp' =
       [route |-> "GET /stats", status |-> 200,
        body |-> [totalRequests |-> getMetrics.totalRequests,
                  successPurchases |-> getMetrics.successPurchases,
                  failedPurchases |-> getMetrics.failedPurchases,
                  p95Latency |-> getMetrics.p95Latency,
                  cacheStats |->
                    [seatCache |-> seatCache,
                     idempotencyCacheSize |-> Cardinality(DOMAIN idempotencyCache)]]]
  /\ UNCHANGED <<events, purchases, seatCache, idempotencyCache, tasks,
                 startup, reads, crud, successPurchases, failedPurchases, now,
                 requests, totalRequests, requestTimes, listeners,
                 recorded, seed, lifecycle>>

\* the windows the metrics specification starts from: the samples 1..n in
\* arrival order, in reverse order and rotated, and n equal samples
Ascending(n) == [i \in 1..n |-> i]
Descending(n) == [i \in 1..n |-> n + 1 - i]
Rotated(n) == [i \in 1..n |-> ((i + n \div 2) % n) + 1]
Equal(n, responseTime) == [i \in 1..n |-> responseTime]
SampleWindows ==
  UNION {{Ascending(n), Descending(n), Rotated(n), Equal(n, 0), Equal(n, 1)} :
         n \in WindowLengths}

\* the server after it has served requests that all finished: the tables and
\* caches as at construction, a window of response times in the store
InitMetrics ==
  /\ events \in InitialEvents
  /\ purchases = {}
  /\ seatCache = [eventId |-> NoEvent, totalSeats |-> 0, seatsSold |-> 0,
                  lastUpdated |-> 0]
  /\ idempotencyCache = <<>>
  /\ tasks = <<>>
  /\ startup = [pc |-> "query", snap |-> NoRow]
  /\ reads = <<>>
  /\ crud = <<>>
  /\ successPurchases = 0
  /\ failedPurchases = 0
  /\ lastResp = NoResponse
  /\ now = 0
  /\ requests = 0
  /\ requestTimes \in SampleWindows
  /\ totalRequests = Len(requestTimes)
  /\ listeners = <<>>
  /\ recorded = requestTimes
  /\ seed = SeedStart
  /\ lifecycle = LifecycleStart

\* the lengths of the windows the window specification starts from: empty,
\* and within two samples of maxRequestTimes
FullWindowLengths ==
  {0, maxRequestTimes - 2, maxRequestTimes - 1, maxRequestTimes}

\* the server after it has served requests that all finished, none of them
\* evicted from the window yet: the samples 1..n in arrival order
InitWindow ==
  /\ events \in InitialEvents
  /\ purchases = {}
  /\ seatCache = [eventId |-> NoEvent, totalSeats |-> 0, seatsSold |-> 0,
                  lastUpdated |-> 0]
  /\ idempotencyCache = <<>>
  /\ tasks = <<>>
  /\ startup = [pc |-> "query", snap |-> NoRow]
  /\ reads = <<>>
  /\ crud = <<>>
  /\ successPurchases = 0
  /\ failedPurchases = 0
  /\ lastResp = NoResponse
  /\ now = 0
  /\ requests = 0
  /\ requestTimes \in {Ascending(n) : n \in FullWindowLengths}
  /\ totalRequests = Len(requestTimes)
  /\ listeners = <<>>
  /\ recorded = requestTimes
  /\ seed = SeedStart
  /\ lifecycle = LifecycleStart

(* --------------------- errors passed to next() ------------------------- *)

\* the statuses of the errors the services throw, and 500
ErrorStatusCodes == {400, 404, 409, 500}

\* the errors a middleware or handler can pass to next(): createApiError with
\* either flag, and errors of libraries with or without a statusCode
ThrownErrors ==
  {createApiError(statusCode, message, isOperational, "") :
     statusCode \in ErrorStatusCodes, message \in {"", "message"},
     isOperational \in BOOLEAN}
  \cup {ForeignError(statusCode, message, "at a library") :
          statusCode \in {NoStatusCode, 400, 404}, message \in {"", "message"}}

\* what express.json() raises on a body that is no JSON: an http-errors
\* error with statusCode 400 and no property isOperational
ParseError == ForeignError(400, "Unexpected token in JSON", "at JSON.parse")

\* a response of the error middleware to a request
ErrorAnswer(route, err) ==
  /\ requests < MaxRequests
  /\ requests' = requests + 1
  /\ lastResp' = [route |-> route] @@ ErrorResponse(err)
  /\ UNCHANGED <<events, purchases, seatCache, idempotencyCache, tasks,
                 startup, reads, crud, successPurchases, failedPurchases, now,
                 totalRequests, requestTimes, listeners,
                 recorded, seed, lifecycle>>

\* a handler throws err, or passes it to next()
HandlerError(err) == ErrorAnswer("next(err)", err)

\* app.use((req, res, next) => next(createApiError(404, "Route not found")))
RouteNotFound ==
  ErrorAnswer("unmatched", createApiError(404, "Route not found", TRUE, ""))

\* app.use(express.json()) on a request whose body cannot be parsed
BodyParseFailure == ErrorAnswer("unparsed", ParseError)

(* --------------------------- seed utility ------------------------------ *)

\* main(): the data of the three prisma.event.create calls, in order
SeedData ==
  <<[name |-> "Summer Music Festival 2024", totalSeats |-> 5000, seatsSold |-> 0],
    [name |-> "Tech Conference 2024", totalSeats |-> 3000, seatsSold |-> 150],
    [name |-> "Comedy Night Special", totalSeats |-> 1500, seatsSold |-> 45]>>

\* mutant: every seeded event starts with no seat sold
SeedRowUnsold(data) ==
  [name |-> data.name, totalSeats |-> data.totalSeats, seatsSold |-> 0,
   createdSold |-> 0]

\* the row prisma.event.create stores for data
SeedRow(data) ==
  [name |-> data.name, totalSeats |-> data.totalSeats,
   seatsSold |-> data.seatsSold, createdSold |-> data.seatsSold]

\* main(): the next await prisma.event.create succeeds (a write of its own
\* on the database the server uses)
SeedCreate ==
  /\ seed.pc = "create"
  /\ Len(seed.created) < Len(SeedData)
  /\ WriteLockFree
  /\ events' = Append(events, SeedRow(SeedData[Len(seed.created) + 1]))
  /\ crud' = InvalidateSnapshots(crud)
  /\ seed' = [seed EXCEPT !.created = Append(@, Len(events) + 1)]
  /\ lastResp' = NoResponse
  /\ UNCHANGED <<purchases, seatCache, idempotencyCache, tasks, startup, reads,
                 successPurchases, failedPurchases, now, requests,
                 totalRequests, requestTimes, listeners,
                 recorded, lifecycle>>

\* main(): the next await prisma.event.create rejects; .catch logs and calls
\* process.exit(1), which ends the process before .finally runs
SeedCreateFails ==
  /\ seed.pc = "create"
  /\ Len(seed.created) < Len(SeedData)
  /\ seed' = [pc |-> "exited", created |-> seed.created, exitCode |-> 1]
  /\ lastResp' = NoResponse
  /\ UNCHANGED <<events, purchases, seatCache, idempotencyCache, tasks,
                 startup, reads, crud, successPurchases, failedPurchases, now,
                 requests, totalRequests, requestTimes, listeners,
                 recorded, lifecycle>>

\* main() returns after the third creation; .finally disconnects and the
\* process ends with the exit status 0
SeedCompletes ==
  /\ seed.pc = "create"
  /\ Len(seed.created) = Len(SeedData)
  /\ seed' = [pc |-> "exited", created |-> seed.created, exitCode |-> 0]
  /\ lastResp' = NoResponse
  /\ UNCHANGED <<events, purchases, seatCache, idempotencyCache, tasks,
                 startup, reads, crud, successPurchases, failedPurchases, now,
                 requests, totalRequests, requestTimes, listeners,
                 recorded, lifecycle>>

(* ------------------------ process lifecycle ---------------------------- *)

\* the events index.js listens to that report an unexpected error
UnexpectedErrors == {"uncaughtException", "unhandledRejection"}

\* logger.error(...) and logger.info(...)
LogError(log, message) == Append(log, [level |-> "error", message |-> message])
LogInfo(log, message) == Append(log, [level |-> "info", message |-> message])

\* server.close(): a listening server stops listening; its 'close' event
\* comes when its connections have ended
ServerClose(server) ==
  IF server \in {"starting", "listening"} THEN "closing" ELSE server

\* everything of the model that index.js leaves alone
NotOfLifecycle ==
  <<events, purchases, seatCache, idempotencyCache, tasks, startup, reads,
    crud, successPurchases, failedPurchases, now, totalRequests, requestTimes,
    listeners, recorded, seed>>

\* startServer(): server = app.listen(port, callback), or app.listen throws:
\* catch (error) { logger.error(...); process.exit(1) }
startServer ==
  /\ lifecycle.pc = "start"
  /\ \/ lifecycle' = [lifecycle EXCEPT !.pc = "running", !.server = "starting"]
     \/ lifecycle' = [lifecycle EXCEPT
                        !.pc = "exited", !.exitCode = 1,
                        !.log = LogError(@, "Error starting server:")]
  /\ lastResp' = NoResponse
  /\ UNCHANGED <<NotOfLifecycle, requests>>

\* the callback of app.listen: three logger.info lines
ListenCallback ==
  /\ lifecycle.pc = "running"
  /\ lifecycle.server = "starting"
  /\ lifecycle' = [lifecycle EXCEPT
                     !.server = "listening",
                     !.log = LogInfo(@, "Ticket Reservation API running")]
  /\ lastResp' = NoResponse
  /\ UNCHANGED <<NotOfLifecycle, requests>>

\* mutant: exitHandler exits without waiting for the listener to close
exitHandlerAtOnce(l) ==
  [l EXCEPT !.pc = "exited", !.exitCode = 1, !.server = ServerClose(@)]

\* exitHandler(): server.close(callback) when there is a server, else
\* process.exit(1)
exitHandler(l) ==
  IF l.server # "unset"
  THEN [l EXCEPT !.server = ServerClose(@), !.closeCallbacks = @ + 1]
  ELSE [l EXCEPT !.pc = "exited", !.exitCode = 1]

\* unexpectedErrorHandler(error), on 'uncaughtException' and on
\* 'unhandledRejection': logger.error(error); exitHandler()
unexpectedErrorHandler(event) ==
  /\ lifecycle.pc = "running"
  /\ requests < MaxRequests
  /\ requests' = requests + 1
  /\ lifecycle' = exitHandler([lifecycle EXCEPT !.log = LogError(@, event)])
  /\ lastResp' = NoResponse
  /\ UNCHANGED NotOfLifecycle

\* process.on("SIGTERM") of index.js: logger.info("SIGTERM received");
\* if (server) server.close()
SigtermHandler ==
  /\ lifecycle.pc = "running"
  /\ requests < MaxRequests
  /\ requests' = requests + 1
  /\ lifecycle' = [lifecycle EXCEPT
                     !.log = LogInfo(@, "SIGTERM received"),
                     !.server = IF @ # "unset" THEN ServerClose(@) ELSE @]
  /\ lastResp' = NoResponse
  /\ UNCHANGED NotOfLifecycle

\* the callback exitHandler gave to server.close:
\* logger.info("Server closed"); process.exit(1)
CloseCallback(l) ==
  [l EXCEPT !.log = LogInfo(@, "Server closed"), !.pc = "exited",
            !.exitCode = 1, !.closeCallbacks = 0]

\* the 'close' event of the server, once its connections have ended; the
\* first callback waiting on it ends the process
ServerCloseEvent ==
  /\ lifecycle.pc = "running"
  /\ lifecycle.server = "closing"
  /\ lifecycle' =
       IF lifecycle.closeCallbacks > 0
       THEN CloseCallback([lifecycle EXCEPT !.server = "closed"])
       ELSE [lifecycle EXCEPT !.server = "closed"]
  /\ lastResp' = NoResponse
  /\ UNCHANGED <<NotOfLifecycle, requests>>

\* server.close(callback) on a server that has closed: the 'close' event is
\* emitted again on the next tick and runs the callback
LateCloseCallback ==
  /\ lifecycle.pc = "running"
  /\ lifecycle.server = "closed"
  /\ lifecycle.closeCallbacks > 0
  /\ lifecycle' = CloseCallback(lifecycle)
  /\ lastResp' = NoResponse
  /\ UNCHANGED <<NotOfLifecycle, requests>>

(* ------------------------ specifications ------------------------------- *)

\* cache start-up, which every run of the server goes through
StartupNext == InitializeSeatCacheQuery \/ InitializeSeatCacheAssign

\* the deferred persistence steps of the fast path
DeferredNext ==
  \E i \in 1..Len(tasks) :
    \/ SoldOutRecord(i)
    \/ DeferredUpdate(i)
    \/ DeferredCommit(i)
    \/ DeferredRollback(i)

PurchaseRequestNext ==
  \E k \in Keys, q \in Quantities : purchaseTickets(k, q)

GetEventNext ==
  \/ getEvent
  \/ \E i \in 1..Len(reads) : getEventQuery(i) \/ getEventAssign(i)

CrudNext ==
  \/ \E e \in CrudEventIds, q \in CrudQuantities, k \in CrudKeys :
       PurchaseServicePurchaseTickets(e, q, k)
  \/ \E i \in 1..Len(crud) :
       CrudFindEvent(i) \/ CrudCommit(i) \/ CrudAbort(i)

CreateEventNext ==
  \E hasName \in BOOLEAN, t \in CreateSeats : createEvent(hasName, t)

\* fast-path purchases and their deferred persistence only
NextPurchase == StartupNext \/ PurchaseRequestNext \/ DeferredNext
SpecPurchase == Init /\ [][NextPurchase]_vars

\* the fast path: purchases, read status, deferred persistence
NextFast == StartupNext \/ PurchaseRequestNext \/ DeferredNext \/ GetEventNext \/ Tick
SpecFast == Init /\ [][NextFast]_vars

\* the fast path when every step that waits on storage or on the event loop
\* is eventually taken: start-up, the reads of GET /event, the setImmediate
\* callbacks; requests may stop arriving at any point
GetEventResume ==
  \E i \in 1..Len(reads) : getEventQuery(i) \/ getEventAssign(i)
SpecFastFair ==
  /\ SpecFast
  /\ WF_vars(StartupNext)
  /\ WF_vars(GetEventResume)
  /\ WF_vars(DeferredNext)

\* the fast path with termination signals
NextSignal == NextFast \/ Sigterm
SpecSignal == Init /\ [][NextSignal]_vars

\* the CRUD path: transactional purchases
NextCrud == CrudNext
SpecCrud == Init /\ [][NextCrud]_vars

\* POST /purchase with its validation middleware
PostPurchaseNext ==
  \E h \in HeaderValues, q \in BodyQuantities : PostPurchase(h, q)

\* the POST /purchase route as clients reach it, up to its response (what
\* the middleware decides depends on the request alone)
NextRoute == StartupNext \/ PostPurchaseNext
SpecRoute == Init /\ [][NextRoute]_vars

\* the CRUD routes: events and transactional purchases
NextCrudEvents == CrudNext \/ CreateEventNext
SpecCrudEvents == Init /\ [][NextCrudEvents]_vars

\* the metrics store: counted requests, finished requests, GET /stats
MetricsNext ==
  \/ Arrive("GET /api/v1/stats")
  \/ \E i \in 1..Len(listeners) : RouterTrackMetrics(i) \/ ResponseFinish(i)
  \/ getStats
NextMetrics == MetricsNext
SpecMetrics == InitMetrics /\ [][NextMetrics]_vars

\* the error middleware: errors of handlers, unmatched routes, bad bodies
ErrorNext ==
  \/ \E err \in ThrownErrors : HandlerError(err)
  \/ RouteNotFound
  \/ BodyParseFailure
NextErrors == ErrorNext
SpecErrors == Init /\ [][NextErrors]_vars

\* the ticket routes with their middleware, up to the response, on a server
\* whose CRUD routes have stored nothing
TicketRoutes ==
  /\ crud = <<>> /\ purchases = {}
  /\ (PostPurchaseNext \/ GetEventNext \/ getStats)

\* the CRUD routes, on a server whose ticket routes have not been used
CrudRoutes ==
  /\ tasks = <<>> /\ idempotencyCache = <<>> /\ reads = <<>>
  /\ (CrudNext \/ CreateEventNext)

\* every route of the application up to its response; a run of this
\* specification uses the ticket routes or the CRUD routes, and with either
\* the requests no route matches and the bodies that cannot be parsed
NextResponses ==
  \/ StartupNext
  \/ TicketRoutes
  \/ CrudRoutes
  \/ RouteNotFound
  \/ BodyParseFailure
SpecResponses == Init /\ [][NextResponses]_vars

\* the seed utility, run on the database of a server that takes POST /events
SeedNext == SeedCreate \/ SeedCreateFails \/ SeedCompletes
NextSeed == SeedNext \/ CreateEventNext
SpecSeed == Init /\ [][NextSeed]_vars

\* the fast path on a database where POST /events creates events
NextFastEvents == NextFast \/ CreateEventNext
SpecFastEvents == Init /\ [][NextFastEvents]_vars

\* the request counting of every route, from the first request on
TrackingNext ==
  \/ \E route \in DOMAIN RouteTable : Arrive(route)
  \/ \E i \in 1..Len(listeners) : RouterTrackMetrics(i) \/ ResponseFinish(i)
  \/ Tick
\* the requests that pass one trackMetrics and two, the clock and reset()
WindowNext ==
  \/ Arrive("GET /")
  \/ Arrive("GET /api/v1/stats")
  \/ \E i \in 1..Len(listeners) : RouterTrackMetrics(i) \/ ResponseFinish(i)
  \/ Tick
  \/ reset
NextWindow == WindowNext
SpecWindow == InitWindow /\ [][NextWindow]_vars

NextTracking == TrackingNext
SpecTracking == Init /\ [][NextTracking]_vars

\* the process of index.js: start, unexpected errors, termination signals
LifecycleNext ==
  \/ startServer
  \/ ListenCallback
  \/ \E event \in UnexpectedErrors : unexpectedErrorHandler(event)
  \/ SigtermHandler
  \/ ServerCloseEvent
  \/ LateCloseCallback
NextLifecycle == LifecycleNext
SpecLifecycle == Init /\ [][NextLifecycle]_vars

\* the whole server
Next == NextFast \/ Sigterm \/ CrudNext \/ CreateEventNext
Spec == Init /\ [][Next]_vars

(* ---------------------- what the claims speak of ----------------------- *)

Events == 1..Len(events)
Tasks == 1..Len(tasks)

\* the deferred persistence of task i has not finished
Pending(i) == tasks[i].pc \in {"scheduled", "updated"}

\* the latest step answered a POST /purchase request from its handler
PurchaseAnswered ==
  lastResp.route = "POST /purchase" /\ "replay" \in DOMAIN lastResp

RECURSIVE AcceptedQuantityOf(_)
AcceptedQuantityOf(ts) ==
  IF ts = <<>> THEN 0
  ELSE (IF Head(ts).kind = "success" THEN Head(ts).quantity ELSE 0)
       + AcceptedQuantityOf(Tail(ts))

\* total quantity of the requests answered 200 that were no replay: each of
\* them scheduled one success task
AcceptedQuantity == AcceptedQuantityOf(tasks)

(* C1: on a cache initialised with totalSeats = N and seatsSold = 0, the     *)
(* total quantity of the fast-path requests answered with a non-replay 200   *)
(* never exceeds N, whatever their deferred persistence steps do.            *)
C1_AcceptedWithinCapacity ==
  (seatCache.eventId # NoEvent /\ events[seatCache.eventId].createdSold = 0)
    => AcceptedQuantity <= seatCache.totalSeats

(* C2: with fast-path operations only (purchases, GET /event, deferred       *)
(* writes) the persisted seatsSold of an event never exceeds its totalSeats. *)
C2_FastPathPersistedWithinCapacity ==
  \A e \in Events : events[e].seatsSold <= events[e].totalSeats

(* C3: concurrent CRUD-path purchase transactions on one event never bring   *)
(* its persisted seatsSold above its totalSeats.                             *)
C3_CrudPersistedWithinCapacity ==
  \A e \in Events : ~(events[e].seatsSold > events[e].totalSeats)

\* a transaction passed its availability check, another one committed, and
\* the seats the first one asks for are no longer there
C3_Witness ==
  \E i \in 1..Len(crud) :
    /\ crud[i].pc = "stale"
    /\ events[crud[i].eventId].seatsSold + crud[i].quantity
         > events[crud[i].eventId].totalSeats
    /\ \E r \in purchases : r.eventId = crud[i].eventId

(* C4: 0 <= seatsSold <= totalSeats holds of every persisted event when      *)
(* fast-path and CRUD-path purchases run against the same event.             *)
C4_EventInvariant ==
  \A e \in Events :
    0 <= events[e].seatsSold /\ events[e].seatsSold <= events[e].totalSeats

(* C5: a fast-path request whose key holds a reservation that is pending or  *)
(* persisted is answered as the request that made the reservation was (same  *)
(* status, same body, same seatsRemaining) and adds no second increment of   *)
(* seatCache.seatsSold.                                                      *)

\* task i is the reservation of key k, pending or persisted
LiveReservation(i, k) ==
  /\ tasks[i].kind = "success" /\ tasks[i].key = k
  /\ (Pending(i) \/ tasks[i].pc = "committed")

\* what the request that scheduled task i was answered
FirstAnswer(i) ==
  [status |-> tasks[i].resp.statusCode,
   body |-> [success |-> TRUE, seatsRemaining |-> tasks[i].resp.seatsRemaining]]

C6_OneReservationPerKey ==
  \A k \in Keys :
    /\ Cardinality({i \in Tasks : LiveReservation(i, k)}) <= 1
    /\ Cardinality({i \in Tasks : tasks[i].kind = "success" /\ tasks[i].key = k
                                  /\ tasks[i].pc = "committed"}) <= 1

(* C7: the purchases table holds at most one row per idempotencyKey,         *)
(* whichever pipeline wrote it.                                              *)
C7_OneRowPerKey ==
  \A k \in Keys : Cardinality(RowsWithKey(k)) <= 1

\* a deferred write and a CRUD purchase were both attempted for a key that
\* has its row
C7_Witness ==
  \E i \in Tasks :
    /\ tasks[i].pc = "failed"
    /\ RowsWithKey(tasks[i].key) # {}
    /\ \E r \in purchases : r.idempotencyKey # tasks[i].key

(* C8: CRUD path: once a row exists for a key, a later request with that key *)
(* returns that row with isNewPurchase = false, creates no row and changes   *)
(* no seatsSold.                                                             *)

\* this step is the arrival of a POST /purchases request that was answered
CrudArrivalAnswered ==
  requests' = requests + 1 /\ lastResp'.route = "POST /purchases"

\* this step answers with the existing row of the key and writes nothing
AnsweredAsReplay ==
  /\ lastResp'.status = 200
  /\ lastResp'.body.isNewPurchase = FALSE
  /\ lastResp'.body.data \in RowsWithKey(lastResp'.key)
  /\ purchases' = purchases
  /\ events' = events

\* the claim as stated: for every quantity and eventId of the request
C8_ReplayForEveryInput ==
  [][(CrudArrivalAnswered /\ RowsWithKey(lastResp'.key) # {})
       => AnsweredAsReplay]_vars

\* the claim for the requests that pass the input validation
C8_ReplayForValidInput ==
  [][/\ (/\ CrudArrivalAnswered
         /\ RowsWithKey(lastResp'.key) # {}
         /\ lastResp'.eventId # NoField
         /\ lastResp'.quantity \in 1..MaxPurchaseQty)
        => AnsweredAsReplay
     /\ \* and no request whose key has a row enters the transaction
        Len(crud') > Len(crud)
          => RowsWithKey(crud'[Len(crud')].key) = {}]_vars

\* a replay whose quantity and eventId both differ from the row's
C8_Witness ==
  /\ lastResp.route = "POST /purchases" /\ lastResp.status = 200
  /\ \E r \in RowsWithKey(lastResp.key) :
       r.quantity # lastResp.quantity /\ r.eventId # lastResp.eventId

(* C9: a fast-path request whose key is not in IdempotencyCache and whose    *)
(* quantity exceeds totalSeats - seatsSold of the cache is answered 409      *)
(* {error: "SOLD_OUT"}, leaves seatCache.seatsSold unchanged and stores the  *)
(* sold-out response under the key.                                          *)
C9_SoldOut ==
  [][\A k \in Keys :
       (/\ PurchaseAnswered' /\ lastResp'.key = k
        /\ k \notin DOMAIN idempotencyCache
        /\ lastResp'.quantity > seatCache.totalSeats - seatCache.seatsSold)
         => /\ lastResp'.status = 409
            /\ lastResp'.body = [error |-> "SOLD_OUT"]
            /\ seatCache' = seatCache
            /\ k \in DOMAIN idempotencyCache'
            /\ idempotencyCache'[k] =
                 [error |-> "SOLD_OUT", statusCode |-> 409,
                  seatsRemaining |-> seatCache.totalSeats - seatCache.seatsSold]
      ]_vars

\* sold out on an initialised cache with seats left, asking one seat too many
C9_Witness ==
  /\ PurchaseAnswered /\ lastResp.status = 409 /\ ~lastResp.replay
  /\ seatCache.eventId # NoEvent
  /\ seatCache.totalSeats - seatCache.seatsSold >= 1
  /\ lastResp.quantity = seatCache.totalSeats - seatCache.seatsSold + 1

(* C10: when the deferred persistence of an accepted reservation fails, the  *)
(* rollback takes exactly its quantity off seatCache.seatsSold and removes   *)
(* its key from IdempotencyCache, and the next request with that key is      *)
(* evaluated as new against the cache as it then is.                         *)
C10_RollbackReopensKey ==
  [][/\ \A i \in Tasks :
          (tasks[i].kind = "success" /\ Pending(i) /\ tasks'[i].pc = "failed")
            => /\ seatCache'.seatsSold = seatCache.seatsSold - tasks[i].quantity
               /\ seatCache'.totalSeats = seatCache.totalSeats
               /\ tasks[i].key \notin DOMAIN idempotencyCache'
     /\ \A k \in Keys \ DOMAIN idempotencyCache :
          IF PurchaseAnswered' /\ lastResp'.key = k
          THEN \* evaluated as new: decided by the availability check
               /\ ~lastResp'.replay
               /\ lastResp'.status =
                    IF lastResp'.quantity
                         <= seatCache.totalSeats - seatCache.seatsSold
                    THEN 200 ELSE 409
          ELSE \* until then the key stays out of the cache
               k \notin DOMAIN idempotencyCache']_vars

\* a key accepted, rolled back, asked again and accepted as new
C10_Witness ==
  /\ PurchaseAnswered /\ ~lastResp.replay /\ lastResp.status = 200
  /\ \E i \in Tasks :
       /\ tasks[i].kind = "success" /\ tasks[i].pc = "failed"
       /\ tasks[i].key = lastResp.key
       /\ i < Len(tasks) /\ tasks[Len(tasks)].key = lastResp.key

(* ------------------- CRUD path: what a request does --------------------- *)

\* the latest step answered a POST /purchases request
CrudAnswered == lastResp.route = "POST /purchases"

\* seats the event no longer has for quantity q
Insufficient(e, q) == events[e].seatsSold + q > events[e].totalSeats

\* this step takes request i out of its transaction
LeavesTransaction(i) == crud' = RemoveAt(crud, i) \/ crud' = InvalidateSnapshots(RemoveAt(crud, i))

(* C11: CRUD-path purchase with a new key on an existing event: a 409 is     *)
(* given only when seatsSold + quantity > totalSeats and changes nothing; a  *)
(* request passes the availability check only when the seats suffice; a 201  *)
(* adds exactly one purchase row and exactly quantity to seatsSold, within   *)
(* totalSeats; a request that finds too few seats is answered 409 (or 500    *)
(* when the store fails).                                                    *)
C11_CheckThenIncrement ==
  [][/\ (CrudAnswered' /\ lastResp'.status = 409)
          => /\ EventExists(lastResp'.eventId)
             /\ Insufficient(lastResp'.eventId, lastResp'.quantity)
             /\ events' = events /\ purchases' = purchases
     /\ (CrudAnswered' /\ lastResp'.status = 201)
          => /\ EventExists(lastResp'.eventId)
             /\ ~Insufficient(lastResp'.eventId, lastResp'.quantity)
             /\ RowsWithKey(lastResp'.key) = {}
             /\ Cardinality(purchases') = Cardinality(purchases) + 1
             /\ \E r \in purchases' \ purchases :
                  /\ r.idempotencyKey = lastResp'.key
                  /\ r.eventId = lastResp'.eventId
                  /\ r.quantity = lastResp'.quantity
             /\ \A e \in Events :
                  events'[e].seatsSold =
                    events[e].seatsSold
                      + (IF e = lastResp'.eventId THEN lastResp'.quantity ELSE 0)
             /\ Len(events') = Len(events)
     /\ \A i \in 1..Len(crud) :
          /\ (crud[i].pc = "begin" /\ crud' = [crud EXCEPT ![i].pc = "checked"])
               => /\ EventExists(crud[i].eventId)
                  /\ ~Insufficient(crud[i].eventId, crud[i].quantity)
          /\ (/\ crud[i].pc = "begin" /\ EventExists(crud[i].eventId)
              /\ Insufficient(crud[i].eventId, crud[i].quantity)
              /\ LeavesTransaction(i) /\ CrudAnswered')
               => lastResp'.status \in {409, 500}]_vars

\* a purchase was made, and a later request one seat short was refused
C11_Witness ==
  /\ CrudAnswered /\ lastResp.status = 409
  /\ EventExists(lastResp.eventId)
  /\ events[lastResp.eventId].seatsSold + lastResp.quantity
       = events[lastResp.eventId].totalSeats + 1
  /\ \E r \in purchases : r.eventId = lastResp.eventId /\ r.statusCode = NoStatus

(* C12: a CRUD-path purchase request that ends in an error leaves the events *)
(* and purchases tables as they were: a missing field, quantity <= 0 or      *)
(* quantity > 10 is answered 400 and never enters the transaction; an        *)
(* unknown event is answered 404; every answer of 400 and above writes       *)
(* nothing; a purchase row is written exactly when a seat increment is.      *)
C12_ErrorsWriteNothing ==
  [][/\ (CrudAnswered' /\ lastResp'.status >= 400)
          => (events' = events /\ purchases' = purchases)
     /\ (/\ CrudAnswered'
         /\ (\/ lastResp'.eventId = NoField \/ lastResp'.key = NoField
             \/ lastResp'.quantity = NoField
             \/ lastResp'.quantity <= 0 \/ lastResp'.quantity > 10))
          => lastResp'.status = 400
     /\ Len(crud') > Len(crud)
          => LET c == crud'[Len(crud')] IN
             /\ c.eventId # NoField /\ c.key # NoField
             /\ c.quantity >= 1 /\ c.quantity <= 10
     /\ \A i \in 1..Len(crud) :
          /\ (crud[i].pc = "begin" /\ ~EventExists(crud[i].eventId))
               => crud' # [crud EXCEPT ![i].pc = "checked"]
          /\ (/\ crud[i].pc = "begin" /\ ~EventExists(crud[i].eventId)
              /\ LeavesTransaction(i) /\ CrudAnswered')
               => lastResp'.status \in {404, 500}
     /\ (purchases' # purchases) <=> (events' # events)
     /\ (purchases' # purchases) => (CrudAnswered' /\ lastResp'.status = 201)]_vars

\* an unknown event was refused after a purchase had been made
C12_Witness ==
  /\ CrudAnswered /\ lastResp.status = 404
  /\ purchases # {} /\ events # <<>>

(* C13: fast path only, cache initialised: a request with a new key is       *)
(* answered 200 when every request before it had a key of its own and was    *)
(* accepted and the quantities of all of them, its own included, are within  *)
(* totalSeats - seatsSold of the event as the cache was initialised from it, *)
(* whatever GET /event and the deferred persistence steps did in between.    *)

\* the keys of the requests that were evaluated as new so far are distinct
DistinctKeys ==
  \A i \in Tasks : \A j \in Tasks : tasks[i].key = tasks[j].key => i = j

C13_NoSpuriousFailure ==
  [][(/\ PurchaseAnswered' /\ ~lastResp'.replay
      /\ seatCache.eventId # NoEvent
      /\ DistinctKeys
      /\ \A i \in Tasks : tasks[i].kind = "success" /\ tasks[i].key # lastResp'.key
      /\ AcceptedQuantity + lastResp'.quantity
           <= events[seatCache.eventId].totalSeats
                - events[seatCache.eventId].createdSold)
       => lastResp'.status = 200]_vars

\* two keys took all the seats, the first one's persistence failed after a
\* refresh of the cache, and the second was still accepted
C13_Witness ==
  /\ PurchaseAnswered /\ ~lastResp.replay /\ lastResp.status = 200
  /\ Len(tasks) = 2 /\ DistinctKeys
  /\ tasks[1].kind = "success" /\ tasks[1].pc = "failed"
  /\ seatCache.eventId # NoEvent
  /\ AcceptedQuantity = events[seatCache.eventId].totalSeats
                          - events[seatCache.eventId].createdSold
  /\ seatCache.seatsSold < events[seatCache.eventId].createdSold + tasks[2].quantity

(* ------------------- fast path: request validation ---------------------- *)

\* the handler of POST /purchase ran in this step for key k and quantity q
HandlerRan(k, q) ==
  /\ PurchaseAnswered'
  /\ lastResp'.key = k /\ lastResp'.quantity = q
  /\ lastResp'.status \in {200, 409}
  /\ requests' = requests + 1

\* this step changed nothing the handler works on
HandlerNotReached ==
  UNCHANGED <<events, purchases, seatCache, idempotencyCache, tasks,
              successPurchases, failedPurchases, requests>>

\* the step answered 400 with this error code
Rejected(error) ==
  /\ lastResp'.route = "POST /purchase" /\ lastResp'.status = 400
  /\ lastResp'.body.success = FALSE /\ lastResp'.body.error = error
  /\ HandlerNotReached

(* C14: POST /purchase with a valid Idempotency-Key header: a quantity that  *)
(* is an integer in 1..10 reaches the handler; a quantity of 0, 11, another  *)
(* integer outside 1..10, a non-integer number or no quantity is answered    *)
(* 400 VALIDATION_ERROR and does not reach the handler.                     *)
C14_BodyValidation ==
  [][\A k \in Keys, q \in BodyQuantities :
       PostPurchase(HeaderOf(k), q)
         => IF q.type = "number" /\ q.twice \in {2 * n : n \in 1..10}
            THEN HandlerRan(k, q.twice \div 2)
            ELSE Rejected("VALIDATION_ERROR")]_vars

\* a quantity of ten and a half was refused with both of its messages
C14_Witness ==
  /\ lastResp.route = "POST /purchase" /\ lastResp.status = 400
  /\ lastResp.body.error = "VALIDATION_ERROR"
  /\ lastResp.body.message
       = "Quantity must be an integer, Quantity cannot exceed 10"
  /\ tasks # <<>>

\* what the route does once the header is accepted: the key goes to the body
\* validation and, with a valid quantity, to the handler
KeyAttached(k, q) ==
  IF q.type = "number" /\ q.twice \in {2 * n : n \in 1..10}
  THEN HandlerRan(k, q.twice \div 2)
  ELSE Rejected("VALIDATION_ERROR")

(* C15: POST /purchase header validation.  As claimed: no Idempotency-Key    *)
(* header is answered 400 MISSING_IDEMPOTENCY_KEY; a header that is present  *)
(* and is not a string of length 1 to 255 is answered 400                    *)
(* INVALID_IDEMPOTENCY_KEY; otherwise the key is attached; the header is     *)
(* validated before the body.                                                *)
C15_HeaderValidationAsClaimed ==
  [][\A h \in HeaderValues, q \in BodyQuantities :
       PostPurchase(h, q)
         => IF ~h.present THEN Rejected("MISSING_IDEMPOTENCY_KEY")
            ELSE IF h.length \notin 1..255
            THEN Rejected("INVALID_IDEMPOTENCY_KEY")
            ELSE KeyAttached(h.key, q)]_vars

(* C15 as the code has it: no header, or a header with the empty string as   *)
(* its value, is answered 400 MISSING_IDEMPOTENCY_KEY; a header longer than  *)
(* 255 is answered 400 INVALID_IDEMPOTENCY_KEY; otherwise the key is         *)
(* attached; the header is validated before the body.                        *)
C15_HeaderValidation ==
  [][\A h \in HeaderValues, q \in BodyQuantities :
       PostPurchase(h, q)
         => IF ~h.present \/ h.length = 0
            THEN Rejected("MISSING_IDEMPOTENCY_KEY")
            ELSE IF h.length > 255
            THEN Rejected("INVALID_IDEMPOTENCY_KEY")
            ELSE KeyAttached(h.key, q)]_vars

\* a header that is too long was refused after the handler had taken requests
\* with the shortest and with the longest key
C15_Witness ==
  /\ lastResp.route = "POST /purchase" /\ lastResp.status = 400
  /\ lastResp.body.error = "INVALID_IDEMPOTENCY_KEY"
  /\ lastResp.body.message = "Idempotency-Key header too long"
  /\ {tasks[i].key : i \in Tasks} = {1, 2}

(* ------------------------ CRUD path: events ----------------------------- *)

\* the latest step answered a POST /events request
EventAnswered == lastResp.route = "POST /events"

(* C16: POST /events: a request with no name, or with totalSeats <= 0, is    *)
(* answered 400 and creates no event row; a request with a name and no       *)
(* totalSeats creates an event with totalSeats = 5000; a request with a name *)
(* and totalSeats > 0 creates an event with that totalSeats; every created   *)
(* event starts with seatsSold = 0 and no other row changes.                 *)
C16_CreateEvent ==
  [][/\ \A hasName \in BOOLEAN, t \in CreateSeats :
          createEvent(hasName, t)
            => IF ~hasName \/ (t.given /\ t.value <= 0)
               THEN /\ EventAnswered' /\ lastResp'.status = 400
                    /\ events' = events
               ELSE /\ EventAnswered' /\ lastResp'.status = 201
                    /\ Len(events') = Len(events) + 1
                    /\ events'[Len(events')].totalSeats =
                         (IF t.given THEN t.value ELSE 5000)
     /\ Len(events') # Len(events)
          => /\ Len(events') = Len(events) + 1
             /\ SubSeq(events', 1, Len(events)) = events
             /\ events'[Len(events')].seatsSold = 0
             /\ EventAnswered' /\ lastResp'.status = 201]_vars

\* an event was created with the default number of seats beside an event
\* that has sold seats
C16_Witness ==
  /\ EventAnswered /\ lastResp.status = 201
  /\ Len(events) = 2
  /\ events[2].totalSeats = 5000 /\ events[2].seatsSold = 0
  /\ events[1].seatsSold > events[1].createdSold

\* value is what stands at the zero-based place k of the samples in ascending
\* order: at most k samples are smaller and more than k are not larger
AtSortedIndex(times, k, value) ==
  /\ Cardinality({i \in DOMAIN times : times[i] < value}) <= k
  /\ Cardinality({i \in DOMAIN times : times[i] <= value}) > k

\* ceil(0.95 * n) - 1, as the least k with 100 * (k + 1) >= 95 * n
P95Place(n) == CHOOSE k \in 0..n : 100 * (k + 1) >= 95 * n

\* GET /stats has just answered
StatsAnswered == lastResp.route = "GET /stats"

\* C17: for a window of n >= 1 recorded response times the p95Latency of
\* getMetrics() is the sample at the zero-based place ceil(0.95 * n) - 1 of the
\* samples in ascending order (95 for the samples 1..100), it is 0 when no
\* sample has been recorded, and GET /stats reports that value
C17_P95Latency ==
  /\ requestTimes = <<>> => getMetrics.p95Latency = 0
  /\ requestTimes # <<>> =>
       AtSortedIndex(requestTimes, P95Place(Len(requestTimes)),
                     getMetrics.p95Latency)
  /\ (Len(requestTimes) = 100
      /\ {requestTimes[i] : i \in DOMAIN requestTimes} = 1..100) =>
       getMetrics.p95Latency = 95
  /\ StatsAnswered => lastResp.body.p95Latency = getMetrics.p95Latency

\* C17 witness: GET /stats answers for a window of 21 distinct samples, with
\* the second largest of them rather than the largest
C17_Witness ==
  /\ StatsAnswered
  /\ Len(requestTimes) = 21
  /\ lastResp.body.p95Latency = 20
  /\ \E i \in DOMAIN requestTimes : requestTimes[i] = 21

\* the latest step sent an error response
ErrorAnswered == "status" \in DOMAIN lastResp /\ lastResp.status >= 400

\* the body errorHandler builds, for the status of the response
UniformErrorBody ==
  /\ DOMAIN lastResp.body = {"success", "statusCode", "message", "stack"}
  /\ lastResp.body.success = FALSE
  /\ lastResp.body.statusCode = lastResp.status

\* the routes whose errors reach errorHandler
ErrorHandlerRoutes ==
  {"GET /event", "POST /purchases", "POST /events", "unmatched", "unparsed"}

\* C18 as stated: every response with a status >= 400, of whatever route, has
\* the body {success: false, statusCode, message, stack} with statusCode equal
\* to the status of the response
C18_UniformErrorBodyEverywhere == ErrorAnswered => UniformErrorBody

\* C18: a response with a status >= 400 has the body {success: false,
\* statusCode, message, stack}, statusCode being its status, when it comes from
\* errorHandler (GET /event, the CRUD routes, unmatched routes, bodies that
\* cannot be parsed); POST /purchase answers a validation failure with
\* {success: false, error, message} and a sold-out event with
\* {error: "SOLD_OUT"}, and sends no other error in the model
C18_ErrorBodies ==
  ErrorAnswered =>
    /\ lastResp.route \in ErrorHandlerRoutes \cup {"POST /purchase"}
    /\ lastResp.route \in ErrorHandlerRoutes => UniformErrorBody
    /\ lastResp.route = "POST /purchase" =>
         \/ /\ lastResp.status = 400
            /\ DOMAIN lastResp.body = {"success", "error", "message"}
            /\ lastResp.body.success = FALSE
         \/ /\ lastResp.status = 409
            /\ lastResp.body = [error |-> "SOLD_OUT"]

\* C18 witness: POST /purchase answers 409 for a sold-out event, with a body
\* that has neither success nor statusCode
C18_Witness ==
  /\ lastResp.route = "POST /purchase"
  /\ ErrorAnswered
  /\ lastResp.status = 409
  /\ "statusCode" \notin DOMAIN lastResp.body

\* the latest step answered a request whose body could not be parsed
UnparsedAnswered == lastResp.route = "unparsed"

\* C19: a request whose body cannot be parsed (the parser's error carries the
\* status 400 and no operational marker) is answered with status 400 once it
\* has passed errorConverter and errorHandler
C19_ParseFailureAnswered400 ==
  UnparsedAnswered => lastResp.status = 400 /\ lastResp.body.statusCode = 400

\* the response is the forced one: status 500 with the status text of 500
ForcedInternalError(resp) ==
  /\ resp.status = 500
  /\ resp.body.statusCode = 500
  /\ resp.body.message = "Internal Server Error"

\* the response carries the status and the message of the error
CarriedUnmodified(resp, err) ==
  /\ resp.status = err.statusCode
  /\ resp.body.statusCode = err.statusCode
  /\ resp.body.message = err.message

\* C20: an error created as operational reaches the client with its own
\* status code and message; an error that is not marked operational when it
\* reaches errorHandler (one created so, or one of a library that
\* errorConverter wrapped), whatever status it carried, reaches the client with
\* status 500 and the status text of 500 as its message
C20_ErrorPropagation ==
  [][/\ \A err \in ThrownErrors :
          HandlerError(err) =>
            /\ (err.marked /\ err.isOperational) =>
                 CarriedUnmodified(lastResp', err)
            /\ ~isOperationalError(errorConverter(err)) =>
                 ForcedInternalError(lastResp')
            /\ ~err.marked => ForcedInternalError(lastResp')
     /\ RouteNotFound =>
          /\ lastResp'.status = 404
          /\ lastResp'.body.message = "Route not found"
     /\ BodyParseFailure => ForcedInternalError(lastResp')]_vars

\* C20 witness: an error of a library that carried a status has been answered
\* with the forced 500
C20_Witness ==
  /\ lastResp.route = "next(err)"
  /\ lastResp.body.stack = "at a library"
  /\ ForcedInternalError(lastResp)

\* the error the 404 handler passes to next()
RouteNotFoundError == createApiError(404, "Route not found", TRUE, "")

\* C21: a request that matches no route is answered 404 with the message
\* "Route not found" in the body {success: false, statusCode, message, stack};
\* its error passes errorConverter as it is and reaches errorHandler as an
\* operational error
C21_RouteNotFound ==
  /\ errorConverter(RouteNotFoundError) = RouteNotFoundError
  /\ isOperationalError(errorConverter(RouteNotFoundError))
  /\ lastResp.route = "unmatched" =>
       /\ lastResp.status = 404
       /\ lastResp.body.message = "Route not found"
       /\ UniformErrorBody

\* C21 witness: a request that matches no route has been answered 404
C21_Witness ==
  /\ lastResp.route = "unmatched"
  /\ lastResp.status = 404
  /\ requests > 0

\* the seed utility has ended
SeedExited == seed.pc = "exited"

\* the rows of the table the seed utility created, in creation order
SeededRows == [n \in DOMAIN seed.created |-> events[seed.created[n]]]

\* C22: a run of the seed utility in which every creation succeeds adds
\* exactly three event rows, (Summer Music Festival 2024, 5000, 0), (Tech
\* Conference 2024, 3000, 150) and (Comedy Night Special, 1500, 45) at their
\* creation, each with seatsSold <= totalSeats; a run in which a creation
\* fails ends with a non-zero exit status
C22_Seed ==
  [][/\ events' # events /\ seed' # seed =>
          /\ Len(events') = Len(events) + 1
          /\ \A e \in Events : events'[e] = events[e]
     /\ SeedExited' /\ ~SeedExited =>
          IF Len(seed.created) = 3
          THEN /\ seed'.exitCode = 0
               /\ Cardinality({seed.created[n] : n \in 1..3}) = 3
               /\ \A n \in 1..3 :
                    /\ SeededRows[n].name = SeedData[n].name
                    /\ SeededRows[n].totalSeats = SeedData[n].totalSeats
                    /\ SeededRows[n].createdSold = SeedData[n].seatsSold
                    /\ SeededRows[n].seatsSold <= SeededRows[n].totalSeats
               /\ <<SeedData[1].totalSeats, SeedData[1].seatsSold>> = <<5000, 0>>
               /\ <<SeedData[2].totalSeats, SeedData[2].seatsSold>> = <<3000, 150>>
               /\ <<SeedData[3].totalSeats, SeedData[3].seatsSold>> = <<1500, 45>>
          ELSE seed'.exitCode # 0]_vars

\* C22 witness: the seed utility has ended with status 0 after three creations,
\* on a table that held an event before
C22_Witness ==
  /\ SeedExited
  /\ seed.exitCode = 0
  /\ Len(seed.created) = 3
  /\ Len(events) = 4

\* POST /purchase for a key that IdempotencyCache holds
ReplayRequest(k, q) == k \in DOMAIN idempotencyCache /\ purchaseTickets(k, q)

\* C23: a fast-path purchase request whose key is in IdempotencyCache, whether
\* the cached response is a success or a SOLD_OUT, leaves seatCache,
\* IdempotencyCache, successPurchases and failedPurchases unchanged and
\* schedules no persistence step
C23_ReplayChangesNothing ==
  [][\A k \in Keys, q \in Quantities :
       ReplayRequest(k, q) =>
         UNCHANGED <<seatCache, idempotencyCache, successPurchases,
                     failedPurchases, tasks>>]_vars

\* the cache is initialised and younger than 5000 ms
InitialisedAndYoung ==
  seatCache.eventId # NoEvent /\ now - seatCache.lastUpdated < 5000

\* the latest step answered GET /event with 200
StatusAnswered == lastResp.route = "GET /event" /\ lastResp.status = 200

\* C24: GET /event with a cache that is initialised and younger than 5000 ms
\* answers from the cache, queries no storage and leaves the cache as it is;
\* otherwise it queries storage for the most recently created event, and
\* either none exists (404 "No event found", cache unchanged) or the cache
\* becomes that row's id, totalSeats and seatsSold with lastUpdated = now; in
\* every 200 response seatsRemaining = totalSeats - seatsSold
C24_ReadStatus ==
  [][/\ getEvent /\ InitialisedAndYoung =>
          /\ StatusAnswered'
          /\ lastResp'.body.totalSeats = seatCache.totalSeats
          /\ lastResp'.body.seatsSold = seatCache.seatsSold
          /\ UNCHANGED <<seatCache, reads>>
     /\ getEvent /\ ~InitialisedAndYoung =>
          /\ Len(reads') = Len(reads) + 1
          /\ reads'[Len(reads')].pc = "query"
          /\ lastResp' = NoResponse
          /\ UNCHANGED seatCache
     /\ \A i \in 1..Len(reads) :
          /\ getEventQuery(i) /\ events = <<>> =>
               /\ lastResp'.route = "GET /event"
               /\ lastResp'.status = 404
               /\ lastResp'.body.message = "No event found"
               /\ Len(reads') = Len(reads) - 1
               /\ UNCHANGED seatCache
          /\ getEventQuery(i) /\ events # <<>> =>
               /\ reads'[i].snap.id = Len(events)
               /\ reads'[i].snap.totalSeats = events[Len(events)].totalSeats
               /\ reads'[i].snap.seatsSold = events[Len(events)].seatsSold
               /\ UNCHANGED seatCache
          /\ getEventAssign(i) =>
               /\ seatCache' = [eventId |-> reads[i].snap.id,
                                totalSeats |-> reads[i].snap.totalSeats,
                                seatsSold |-> reads[i].snap.seatsSold,
                                lastUpdated |-> now]
               /\ StatusAnswered'
               /\ lastResp'.body.totalSeats = reads[i].snap.totalSeats
               /\ lastResp'.body.seatsSold = reads[i].snap.seatsSold
     /\ StatusAnswered' =>
          lastResp'.body.seatsRemaining =
            lastResp'.body.totalSeats - lastResp'.body.seatsSold]_vars

\* C24 witness: GET /event has answered 200 from storage at time 5000, before
\* the start-up query has run, and the cache carries that row and time
C24_Witness ==
  /\ StatusAnswered
  /\ startup.pc = "query"
  /\ now = 5000
  /\ seatCache.lastUpdated = 5000
  /\ seatCache.eventId = Len(events)

\* the fields of seatCache that say which event it holds and since when
CacheIdentity(cache) == <<cache.eventId, cache.totalSeats, cache.lastUpdated>>

\* this step is a cache assignment of the read-status operation
ReadStatusAssigns == \E i \in 1..Len(reads) : getEventAssign(i)

\* C25 as stated: eventId, totalSeats and lastUpdated of seatCache are changed
\* by no purchase, persistence or rollback step; once start-up has seeded the
\* cache they change only in the read-status operation, and only when the
\* cache is uninitialised or at least 5000 ms old
C25_IdentityChangesOnlyWhenStale ==
  [][/\ CacheIdentity(seatCache') # CacheIdentity(seatCache) =>
          InitializeSeatCacheAssign \/ ReadStatusAssigns
     /\ (startup.pc = "done"
         /\ CacheIdentity(seatCache') # CacheIdentity(seatCache)) =>
          ReadStatusAssigns /\ ~InitialisedAndYoung]_vars

\* C25: eventId, totalSeats and lastUpdated of seatCache are changed only by
\* the start-up seeding and by the cache assignment of a read-status request,
\* never by a purchase, persistence or rollback step; a read-status request
\* goes to storage, and so to the assignment, only if it found the cache
\* uninitialised or at least 5000 ms old when it arrived
C25_IdentityChangesOnlyInReadStatus ==
  [][/\ CacheIdentity(seatCache') # CacheIdentity(seatCache) =>
          InitializeSeatCacheAssign \/ ReadStatusAssigns
     /\ (startup.pc = "done"
         /\ CacheIdentity(seatCache') # CacheIdentity(seatCache)) =>
          ReadStatusAssigns
     /\ Len(reads') > Len(reads) => getEvent /\ ~InitialisedAndYoung
     /\ getEvent /\ InitialisedAndYoung => UNCHANGED reads]_vars

\* C25 witness: after start-up, a read-status request has replaced the event
\* of a cache that another request had refreshed in the meantime
C25_Witness ==
  /\ startup.pc = "done"
  /\ StatusAnswered
  /\ seatCache.eventId # NoEvent
  /\ seatCache.eventId < Len(events)
  /\ seatCache.lastUpdated = now
  /\ now = 5000

\* IdempotencyCache holds a SOLD_OUT response under key k
HoldsSoldOut(k) ==
  k \in DOMAIN idempotencyCache /\ "error" \in DOMAIN idempotencyCache[k]

\* this step is the rollback of an accepted reservation of key k
RollsBackReservationOf(k) ==
  \E i \in Tasks :
    DeferredRollback(i) /\ tasks[i].kind = "success" /\ tasks[i].key = k

C27_SigtermClearsKeysOnly ==
  [][Sigterm =>
       /\ idempotencyCache' = <<>>
       /\ seatCache' = seatCache
       /\ UNCHANGED <<successPurchases, failedPurchases, totalRequests,
                      requestTimes>>
       /\ tasks' = tasks
       /\ \A i \in Tasks : Pending(i) => Pending(i)']_vars

\* C27 witness: after a termination signal the cache of keys is empty while an
\* accepted reservation is still counted in seatCache and waits to be persisted
C27_Witness ==
  /\ idempotencyCache = <<>>
  /\ lastResp = NoResponse
  /\ successPurchases > 0
  /\ seatCache.seatsSold > 0
  /\ \E i \in Tasks : tasks[i].kind = "success" /\ tasks[i].pc = "scheduled"

\* the routes of the ticket router, and the other routes the claim names
FastPathRoutes == {"GET /api/v1/event", "POST /api/v1/purchase", "GET /api/v1/stats"}
OtherRoutes == {"GET /", "POST /api/v1/events", "POST /api/v1/purchases"}

\* the listeners that wait on responses, over all requests
RECURSIVE WaitingListeners(_)
WaitingListeners(ls) ==
  IF ls = <<>> THEN 0
  ELSE Len(Head(ls).startTimes) + WaitingListeners(Tail(ls))

\* C28: a request served by a fast-path route (GET /event, POST /purchase,
\* GET /stats) raises totalRequests by exactly 2 and records exactly two
\* latency samples; a request served by another route (health, events,
\* purchases) raises it by exactly 1 and records exactly one sample
C28_CountedTwiceOnFastPath ==
  [][/\ \A i \in 1..Len(listeners) :
          ResponseFinish(i) =>
            /\ listeners[i].route \in FastPathRoutes =>
                 Len(listeners[i].startTimes) = 2
            /\ listeners[i].route \in OtherRoutes =>
                 Len(listeners[i].startTimes) = 1
            /\ Len(requestTimes') =
                 Len(requestTimes) + Len(listeners[i].startTimes)
            /\ totalRequests' = totalRequests
     /\ totalRequests' # totalRequests =>
          /\ totalRequests' = totalRequests + 1
          /\ WaitingListeners(listeners') = WaitingListeners(listeners) + 1
          /\ requestTimes' = requestTimes
     /\ totalRequests' = Len(requestTimes') + WaitingListeners(listeners')]_vars

\* C28 witness: the health route and a fast-path route have each served one
\* request: three counted requests and three samples
C28_Witness ==
  /\ requests = 2
  /\ listeners = <<>>
  /\ totalRequests = 3
  /\ Len(requestTimes) = 3
  /\ \E i \in DOMAIN requestTimes : requestTimes[i] = 5000

\* the most recent n of the samples of a history
MostRecent(history, n) ==
  SubSeq(history, Len(history) - n + 1, Len(history))

\* the smaller of two numbers
Smaller(a, b) == IF a < b THEN a ELSE b

\* C29: the window holds at most 1000 samples, and exactly the most recent
\* min(k, 1000) of the k samples recorded since the last reset, in arrival
\* order; recording into a full window evicts exactly the oldest sample
C29_WindowOfMostRecent ==
  /\ [](/\ Len(requestTimes) <= 1000
        /\ requestTimes = MostRecent(recorded, Smaller(Len(recorded), 1000)))
  /\ [][\A t \in {0, TickMs} :
          Len(requestTimes) = 1000
            => recordResponseTime(requestTimes, t) =
                 Tail(requestTimes) \o <<t>>]_vars
  /\ [][\A i \in 1..Len(listeners) :
          ResponseFinish(i) /\ Len(requestTimes) = 1000
            => LET n == Len(listeners[i].startTimes)
               IN  /\ Len(requestTimes') = 1000
                   /\ SubSeq(requestTimes', 1, 1000 - n) =
                        SubSeq(requestTimes, n + 1, 1000)]_vars

\* C29 witness: more than 1000 samples have been recorded since the last
\* reset, the oldest has been evicted and the newest is the last of the window
C29_Witness ==
  /\ Len(recorded) > 1000
  /\ Len(requestTimes) = 1000
  /\ requestTimes[1] # recorded[1]
  /\ requestTimes[1000] = TickMs

\* the status and body purchaseTickets sends for the result attemptPurchase
\* stored under a key
StoredReply(cache, idempotencyKey) == PurchaseReply(cache[idempotencyKey])

\* the status the synchronous decision gives a request in the current state
DecidedStatus(idempotencyKey, quantity) ==
  IF idempotencyKey \in DOMAIN idempotencyCache
  THEN idempotencyCache[idempotencyKey].statusCode
  ELSE IF quantity > seatCache.totalSeats - seatCache.seatsSold THEN 409
  ELSE 200

\* C30: the status and body returned to a fast-path purchase are fixed when
\* its synchronous decision ends; the response is in IdempotencyCache before
\* the deferred persistence step starts; whether that step later succeeds or
\* fails, the response to the request is the same
C30_ResponseFixedBeforePersistence ==
  [][/\ PurchaseAnswered' =>
          /\ lastResp'.status = DecidedStatus(lastResp'.key, lastResp'.quantity)
          /\ lastResp'.key \in DOMAIN idempotencyCache'
          /\ [status |-> lastResp'.status, body |-> lastResp'.body] =
               StoredReply(idempotencyCache', lastResp'.key)
          /\ ~lastResp'.replay =>
               /\ Len(tasks') = Len(tasks) + 1
               /\ tasks'[Len(tasks')].pc = "scheduled"
               /\ tasks'[Len(tasks')].key = lastResp'.key
               /\ tasks'[Len(tasks')].resp = idempotencyCache'[lastResp'.key]
          /\ lastResp'.replay => tasks' = tasks
     /\ \A i \in 1..Len(tasks) :
          /\ Len(tasks') >= Len(tasks)
          /\ tasks'[i].resp = tasks[i].resp
          /\ tasks'[i].key = tasks[i].key
          /\ tasks'[i].pc # tasks[i].pc => lastResp' = NoResponse]_vars

\* C30 witness: two requests were given the same response; the deferred
\* persistence of the first failed and that of the second succeeded
C30_Witness ==
  /\ Len(tasks) = 2
  /\ tasks[1].kind = "success" /\ tasks[1].pc = "failed"
  /\ tasks[2].kind = "success" /\ tasks[2].pc = "committed"
  /\ tasks[1].resp = tasks[2].resp

\* the seat cache as the module creates it: no event, no seats
Uninitialised ==
  /\ seatCache.eventId = NoEvent
  /\ seatCache.totalSeats = 0
  /\ seatCache.seatsSold = 0

\* C31: while the seat cache is uninitialised, every fast-path purchase
\* attempt (quantity >= 1) is answered 409 SOLD_OUT, none is answered
\* success, and seatCache.seatsSold stays 0
C31_UninitialisedAnswersSoldOut ==
  /\ [][Uninitialised /\ PurchaseAnswered' =>
          /\ lastResp'.quantity >= 1
          /\ lastResp'.status = 409
          /\ lastResp'.body = [error |-> "SOLD_OUT"]
          /\ successPurchases' = successPurchases
          /\ seatCache' = seatCache]_vars
  /\ [](seatCache.eventId = NoEvent =>
          /\ Uninitialised
          /\ \A i \in 1..Len(tasks) : tasks[i].kind = "soldout")

\* C31 witness: an event exists, start-up has not filled the cache yet, and
\* a purchase with a new key has just been answered 409
C31_Witness ==
  /\ Uninitialised
  /\ events # <<>>
  /\ startup.pc = "assign"
  /\ PurchaseAnswered
  /\ ~lastResp.replay
  /\ lastResp.status = 409

\* C32: in every reachable state of the fast path, also after rollbacks of
\* failed deferred writes and after refreshes that replace the cache while
\* reservations are in flight, 0 <= seatCache.seatsSold <= seatCache.totalSeats
C32_SeatsSoldWithinBounds ==
  /\ 0 <= seatCache.seatsSold
  /\ seatCache.seatsSold <= seatCache.totalSeats

\* the part of C32 that fails first: seatCache.seatsSold is never negative
C32_SeatsSoldNotNegative == 0 <= seatCache.seatsSold

\* the other part of C32: seatCache.seatsSold never exceeds totalSeats
C32_SeatsSoldAtMostTotal == seatCache.seatsSold <= seatCache.totalSeats

\* total quantity of the accepted reservations whose deferred persistence
\* has neither committed nor rolled back
RECURSIVE InFlightQuantityOf(_)
InFlightQuantityOf(ts) ==
  IF ts = <<>> THEN 0
  ELSE (IF Head(ts).kind = "success" /\ Head(ts).pc \in {"scheduled", "updated"}
        THEN Head(ts).quantity ELSE 0)
       + InFlightQuantityOf(Tail(ts))
InFlightQuantity == InFlightQuantityOf(tasks)

\* C33: with fast-path operations only, seatCache.seatsSold is at least the
\* persisted seatsSold of the cached event plus the quantity of the accepted
\* reservations still in flight: a refresh never erases such a reservation
C33_RefreshKeepsReservations ==
  seatCache.eventId # NoEvent =>
    seatCache.seatsSold >=
      events[seatCache.eventId].seatsSold + InFlightQuantity

\* C34: the deferred transaction of an accepted reservation increments
\* seatsSold of, and attaches its purchase row to, the event that was in the
\* seat cache when the reservation was accepted, also when a new event has
\* been created and a refresh has switched the cache to it in between
C34_PersistsToAcceptedEvent ==
  \A i \in 1..Len(tasks) :
    tasks[i].kind = "success" =>
      /\ tasks[i].pc \in {"updated", "committed"} =>
           tasks[i].updEvent = tasks[i].cachedEvent
      /\ tasks[i].pc = "committed" =>
           /\ tasks[i].rowEvent = tasks[i].cachedEvent
           /\ \E r \in purchases :
                /\ r.idempotencyKey = tasks[i].key
                /\ r.eventId = tasks[i].cachedEvent

\* the seat cache agrees with storage on the seats sold of the cached event
CacheAgreesWithStorage ==
  seatCache.eventId # NoEvent =>
    seatCache.seatsSold = events[seatCache.eventId].seatsSold

\* no step of the fast path is waiting: start-up is over, no GET /event waits
\* on storage, every deferred persistence has committed or rolled back
Quiescent ==
  /\ startup.pc = "done"
  /\ reads = <<>>
  /\ \A i \in 1..Len(tasks) : tasks[i].pc \in {"committed", "failed"}

\* C35: with fast-path operations only, once requests stop arriving and
\* every scheduled deferred persistence step has completed, the system
\* reaches and stays in a state where seatCache.seatsSold equals the
\* persisted seatsSold of the cached event
C35_CacheConvergesToStorage == <>[]CacheAgreesWithStorage

\* C35 as a property of the states in which nothing is left to complete
C35_QuiescentAgrees == Quiescent => CacheAgreesWithStorage

\* CRUD request i passed the existing-purchase lookup when no row had its
\* key, and another request has committed a row with that key since
LostTheRace(i) == RowsWithKey(crud[i].key) # {}

\* the step answers a CRUD purchase request that was in flight with key k
CrudInFlightAnswered(k) ==
  /\ Len(crud') < Len(crud)
  /\ lastResp'.route = "POST /purchases"
  /\ lastResp'.key = k

\* C36: of two CRUD purchase requests with the same new idempotencyKey that
\* both pass the existing-purchase lookup before either commits, exactly one
\* creates a row and increments seatsSold, and the other ends with the
\* idempotent replay (existing purchase, isNewPurchase = false, HTTP 200)
C36_ConcurrentSameKeyReplays ==
  /\ [](\A k \in CrudKeys : Cardinality(RowsWithKey(k)) <= 1)
  /\ [][\A i \in 1..Len(crud) :
          (LostTheRace(i) /\ CrudInFlightAnswered(crud[i].key)) =>
            /\ purchases' = purchases
            /\ events' = events
            /\ lastResp'.status = 200
            /\ lastResp'.body.isNewPurchase = FALSE]_vars

\* the part of C36 that holds: a key never has two rows, and a request that
\* lost the race writes nothing
C36_OneRowPerKey ==
  /\ [](\A k \in CrudKeys : Cardinality(RowsWithKey(k)) <= 1)
  /\ [][\A i \in 1..Len(crud) :
          (LostTheRace(i) /\ CrudInFlightAnswered(crud[i].key)) =>
            /\ purchases' = purchases
            /\ events' = events]_vars

\* the step answered a POST /purchase request 400 from a validation middleware
ValidationRejected ==
  /\ lastResp'.route = "POST /purchase"
  /\ lastResp'.status = 400
  /\ lastResp'.body.error \in {"MISSING_IDEMPOTENCY_KEY",
                               "INVALID_IDEMPOTENCY_KEY", "VALIDATION_ERROR"}

\* C37: a fast-path purchase request rejected by header or body validation
\* (400) leaves seatCache, IdempotencyCache, successPurchases,
\* failedPurchases and storage unchanged and schedules no background write
C37_RejectedChangesNothing ==
  [][/\ ValidationRejected =>
          UNCHANGED <<seatCache, idempotencyCache, successPurchases,
                      failedPurchases, events, purchases, tasks>>
     /\ \A h \in HeaderValues, q \in BodyQuantities :
          (/\ PostPurchase(h, q)
           /\ \/ validateIdempotencyHeader(h).route # "next"
              \/ validateBody(q).route # "next")
            => ValidationRejected]_vars

\* C37 witness: a request without the header was rejected while a
\* reservation was cached and its background write was scheduled
C37_Witness ==
  /\ lastResp.route = "POST /purchase" /\ lastResp.status = 400
  /\ lastResp.body.error = "MISSING_IDEMPOTENCY_KEY"
  /\ \E i \in 1..Len(tasks) : tasks[i].kind = "success"
  /\ DOMAIN idempotencyCache # {}
  /\ successPurchases > 0

\* sum of quantity over a set of purchase rows
RECURSIVE QuantityOfRows(_)
QuantityOfRows(rows) ==
  IF rows = {} THEN 0
  ELSE LET r == CHOOSE x \in rows : TRUE
       IN r.quantity + QuantityOfRows(rows \ {r})

\* the purchase rows of event e that are not recorded as rejected
SoldRows(e) ==
  {r \in purchases : r.eventId = e /\ r.wasSuccessful # "false"}

\* C38: for every event, the persisted seatsSold minus the seatsSold the
\* event was created with equals the sum of quantity over the purchase rows
\* of the event that are not recorded as rejected, across the deferred writes
\* of the fast path and the purchases of the CRUD path
C38_SeatsSoldMatchesRows ==
  \A e \in 1..Len(events) :
    events[e].seatsSold - events[e].createdSold = QuantityOfRows(SoldRows(e))

\* the log holds an unexpected error
UnexpectedErrorLogged(log) ==
  \E i \in 1..Len(log) :
    log[i].level = "error" /\ log[i].message \in UnexpectedErrors

\* the process, once started, exits in this step
ExitsNow == lifecycle.pc = "running" /\ lifecycle'.pc = "exited"

\* C39: after an uncaught exception or an unhandled rejection the error is
\* logged, then the listener is closed (when one was started), and only then
\* the process exits with a non-zero code; after a termination signal the
\* listener is closed and the handler itself never calls exit
C39_Lifecycle ==
  [][/\ \A event \in UnexpectedErrors :
          unexpectedErrorHandler(event) =>
            /\ lifecycle'.log =
                 Append(lifecycle.log, [level |-> "error", message |-> event])
            /\ lifecycle.server # "unset" =>
                 /\ lifecycle'.server \in {"closing", "closed"}
                 /\ lifecycle'.closeCallbacks = lifecycle.closeCallbacks + 1
                 /\ lifecycle'.pc = "running"
     /\ ExitsNow =>
          /\ lifecycle'.exitCode # 0
          /\ UnexpectedErrorLogged(lifecycle.log)
          /\ lifecycle.closeCallbacks > 0
          /\ lifecycle'.server = "closed"
          /\ lifecycle'.log =
               Append(lifecycle.log,
                      [level |-> "info", message |-> "Server closed"])
     /\ SigtermHandler =>
          /\ lifecycle'.pc = "running"
          /\ lifecycle'.exitCode = lifecycle.exitCode
          /\ lifecycle'.closeCallbacks = lifecycle.closeCallbacks
          /\ lifecycle'.server \in {"closing", "closed"}]_vars

\* C39 witness: a termination signal closed the listener, the process went
\* on, and a later unhandled rejection was logged and ended it with status 1
C39_Witness ==
  /\ lifecycle.pc = "exited"
  /\ lifecycle.exitCode = 1
  /\ lifecycle.server = "closed"
  /\ \E i \in 1..Len(lifecycle.log) : \E j \in 1..Len(lifecycle.log) :
       /\ i < j
       /\ lifecycle.log[i].message = "SIGTERM received"
       /\ lifecycle.log[j].message = "unhandledRejection"
  /\ lifecycle.log[Len(lifecycle.log)].message = "Server closed"
====
